---- MODULE Spec2Model ----
(***************************************************************************)
(* Rotation engine of the forwarder bot: the Idle/Running state machine,   *)
(* the periodic repost task (RunningState._fallback_repost) and the        *)
(* inbound channel-post handler (ForwarderBot.handle_channel_post).        *)
(*                                                                         *)
(* Time is the integer number of seconds read by datetime.now().           *)
(* The periodic task is modelled by its position (task_pc) between the     *)
(* awaits of its loop body; the inbound handler runs as one step.          *)
(***************************************************************************)
EXTENDS Integers, Sequences, FiniteSets, TLC

VARIABLES
    now,                \* wall clock, seconds
    instants,           \* the clock readings after the first: the clock jumps to a later one
    arrivals,           \* the message ids that may still arrive in each channel
    repeatable,         \* the channels whose last update may be delivered once more
    unseen,             \* the newest id posted in each channel before the bot saw it, 0 = none
    addable,            \* the channels an administrator may still add to the list
    removable,          \* the channels an administrator may still remove from the list
    faults,             \* environment failures injected so far
    starts,             \* Idle.start() calls so far
    restarts,           \* the Idle.start() calls the scenario allows beyond MaxStarts
    username,           \* message.chat.username of each chat, None = the chat has no handle
    commands,           \* the administrator commands the scenario still allows
    issued,             \* the administrator command handled last
    offered,            \* the pairs whose interval keyboard has been drawn
    tasks,              \* the periodic tasks created and not ended
    state,              \* BotContext.state: "Idle" or "Running"
    auto_forward,       \* state.auto_forward
    repost_interval,    \* config store, key "repost_interval"
    source_channels,    \* config.source_channels (ordered)
    target_chats,       \* table target_chats, in the order get_target_chats returns it
    channel_intervals,  \* get_channel_intervals(): channel -> pair record or NoPair
    interval_rows,      \* table channel_intervals: its rows
    last_messages,      \* table last_messages: channel -> message id, 0 = no row
    interval,           \* RunningState.interval
    channel_last_post,  \* RunningState._channel_last_post (0 = no entry)
    last_processed,     \* RunningState._last_processed_channel
    last_global,        \* RunningState._last_global_post_time
    pending,            \* RunningState._pending_messages (<<>> = no entry)
    unavailable,        \* BotContext._temp_unavailable_messages: key -> timestamp
    task_pc,            \* periodic task: "none", "sleep", "resolve", "send", "backoff"
    wake,               \* instant at which the task's current sleep ends
    tick_now,           \* local `now` of the running tick
    message_id,         \* local `message_id` of the running tick
    next_channel,       \* local `next_channel` of the running tick
    tick_last_post_time, \* local `last_post_time` of the running tick
    counts,             \* locals forwarded_count, skipped_count, error_count of the running tick
    message_ids,        \* local `message_ids` of the running tick
    available,          \* local `available_messages` (message ids) of the running tick
    send_i,             \* position of the delivery loop in `available`
    merged,             \* history: pending list read when the last window was built
    sent,               \* history: message ids of the forward calls of the last periodic batch
    batch,              \* history: channel and time of that batch, and the marks made before it
    delivered,          \* history: <<channel, id>> delivered successfully at least once
    redelivered,        \* history: <<channel, id>> delivered successfully more than once
    marked,             \* history: key -> timestamp of its last insertion into `unavailable`
    batch_prev,         \* history: start of the previous periodic batch of each channel
    batch_cur,          \* history: start of the latest periodic batch of each channel
    sel,                \* history: the last candidate selection of the periodic task
    last_window,        \* history: the last window whose availability checks were made
    started,            \* history: instant of the last Idle.start()
    inbound,            \* history: the channel post handled by the last step, if it was one
    unresolved,         \* history: when this run last found no message id for each channel
    forward,            \* history: the _forward_specific_message calls made by the last step
    configured,         \* history: the channels that were in the list at the last Idle.start()
    interval_changed    \* history: when this run's interval was last set by the administrator

vars == << now, instants, arrivals, repeatable, addable, removable, faults, starts, state, auto_forward, repost_interval,
           source_channels, channel_intervals, last_messages, interval,
           channel_last_post, last_processed, last_global, pending, unavailable,
           task_pc, wake, tick_now, message_id, next_channel, message_ids, available, send_i,
           merged, sent, batch, delivered, redelivered, marked, batch_prev, batch_cur,
           sel, last_window, started, configured, inbound, unseen, unresolved,
           target_chats, forward, restarts, tasks, tick_last_post_time, counts,
           username, commands, issued, offered, interval_rows, interval_changed >>

scenario_vars == << instants, arrivals, repeatable, unseen, restarts, username >>
admin_vars == << commands, issued, offered >>
config_vars == << scenario_vars, admin_vars, addable, removable, repost_interval,
                 source_channels, channel_intervals, interval_rows, target_chats >>
start_history == << started, configured, interval_changed >>
task_vars == << task_pc, wake, tasks >>
cursor_vars == << interval, channel_last_post, last_processed, last_global, pending >>
tick_locals == << tick_now, message_id, next_channel, tick_last_post_time, message_ids, available,
                 send_i, counts >>
batch_history == << merged, sent, batch, batch_prev, batch_cur >>
window_history == << sel, last_window >>
delivery_history == << delivered, redelivered, marked >>

(***************************************************************************)
(* Bounds and program constants                                            *)
(***************************************************************************)
MaxFaults == 1
MaxStarts == 1
\* the Unix time at which the scenarios begin; timestamp 0 is what a missing
\* _channel_last_post entry reads as
ClockOrigin == 100000

SleepSeconds == 10
BackoffSeconds == 60
WindowBack == 10
UnavailableTtl == 1800
DefaultInterval == 3600

\* the keys of the scenarios: three chat ids and a handle
Channels == {"A", "B", "C", "News"}
None == "none"
NoPair == [next_channel |-> None, interval |-> 0]
EmptyCache == [k \in {} |-> 0]
NoSelection == [channels |-> <<>>, from |-> None, elapsed |-> 0, cand |-> None]
NoBatch == [channel |-> None, at |-> 0, marks |-> EmptyCache]
NoWindow == [channel |-> None, at |-> 0, ids |-> {}, checked |-> {}, marks |-> EmptyCache]
NoPost == [chat_id |-> None, message_id |-> 0, calls |-> <<>>]
NoCalls == <<>>
NoCounts == [forwarded |-> 0, skipped |-> 0, errors |-> 0]
NoUsernames == [c \in Channels |-> None]

(***************************************************************************)
(* Helpers                                                                 *)
(***************************************************************************)
Max(a, b) == IF a >= b THEN a ELSE b

Range(s) == {s[i] : i \in 1..Len(s)}

\* list.index: position of x in s, 0 when x is not in s (ValueError branch)
IndexOf(s, x) ==
    IF x \in Range(s)
    THEN CHOOSE i \in 1..Len(s) : s[i] = x /\ \A j \in 1..(i - 1) : s[j] # x
    ELSE 0

\* list(range(a, b + 1))
RangeSeq(a, b) == [i \in 1..Max(0, b - a + 1) |-> a + i - 1]

Key(c, m) == <<c, m>>

\* sorted(list(S)) for a set of integers
RECURSIVE SortedSet(_)
SortedSet(S) ==
    IF S = {} THEN <<>>
    ELSE LET m == CHOOSE x \in S : \A y \in S : x <= y
         IN <<m>> \o SortedSet(S \ {m})

\* dict with one entry added or overwritten
Put(cache, k, t) == [x \in DOMAIN cache \cup {k} |-> IF x = k THEN t ELSE cache[x]]

(***************************************************************************)
(* Pure pieces of RunningState._fallback_repost                            *)
(***************************************************************************)
\* faulty variant: the lower end is not clamped at 1
StartIdUnclamped(max_id) == max_id - WindowBack

\* faulty variant: the ten most recent ids
StartIdNine(max_id) == Max(1, max_id - 9)

\* start_id = max(1, max_id - 10)
StartId(max_id) == Max(1, max_id - WindowBack)

\* list(range(start_id, max_id + 1))
BaseIds(max_id) == RangeSeq(StartId(max_id), max_id)

\* message_ids as the if/else on pending_messages leaves it
FirstMessageIds(pend, max_id) ==
    IF pend # <<>>
    THEN SortedSet(Range(pend) \cup Range(BaseIds(max_id)))
    ELSE BaseIds(max_id)

\* faulty variant: the pending ids are put in front of the range, duplicates and all
MessageIdsConcatenated(pend, max_id) == pend \o BaseIds(max_id)

\* message_ids as the tick uses it: the statement after the if/else assigns the
\* plain range again, whatever the if/else computed
MessageIds(pend, max_id) ==
    LET first == FirstMessageIds(pend, max_id)
    IN  BaseIds(max_id)

\* the pending list of the channel after the window was built
PendingAfterMerge(pend) == <<>>

\* faulty variant: an entry that is exactly 30 minutes old survives the cleanup
PurgeLate(cache, t) ==
    [k \in {x \in DOMAIN cache : t - cache[x] <= UnavailableTtl} |-> cache[k]]

\* entries younger than 30 minutes survive the cleanup
Purge(cache, t) ==
    [k \in {x \in DOMAIN cache : t - cache[x] < UnavailableTtl} |-> cache[k]]

\* _check_message: presumes the message exists
CheckMessage(c, m) == TRUE

\* the ids for which a check task is created and whose check succeeds
Checked(c, ids, cache) ==
    SelectSeq(ids, LAMBDA m : Key(c, m) \notin DOMAIN cache /\ CheckMessage(c, m))

\* faulty variant: newest first, as RunningState.handle_message orders its ids
SortByIdDescending(s) == SortSeq(s, LAMBDA a, b : a > b)

\* available_messages.sort(key=message_id); sorted(available_messages, key=message_id)
SortById(s) == SortSeq(s, LAMBDA a, b : a < b)

\* faulty variant: no waiting at all, a channel is due as soon as it is looked at
CoolingDownIgnored(t, last_post_time, gap) == FALSE

\* faulty variant: the comparison is the wrong way round
CoolingDownInverted(t, last_post_time, gap) == t - last_post_time > gap

\* now - last_post_time < self.interval
CoolingDown(t, last_post_time, gap) == t - last_post_time < gap

\* faulty variant: the pair is held back until the global interval has elapsed
PairElapsedGlobal(t, since, special_interval) == t - since >= interval

\* now - self._last_global_post_time >= special_interval
PairElapsed(t, since, special_interval) == t - since >= special_interval

HasPair(c) == channel_intervals[c] # NoPair

\* faulty variant: the rotation restarts from the end of the list
LastChannel(chs) == chs[Len(chs)]

\* source_channels[0]
FirstChannel(chs) == chs[1]

\* faulty variant: no wrap, the last channel is followed by itself
SuccessorNoWrap(chs, idx) == chs[IF idx = Len(chs) THEN idx ELSE idx + 1]

\* source_channels[(current_idx + 1) % len(source_channels)], positions counted from 1
Successor(chs, idx) == chs[(idx % Len(chs)) + 1]

\* no usable pair: wait for the global interval, then the next channel of the list
RoundRobin(t, current_idx) ==
    IF CoolingDown(t, last_global, interval)
    THEN None
    ELSE Successor(source_channels, current_idx)

\* faulty variant: a pair that has not elapsed gives way to the round robin
PairWaitingFallsThrough(t, current_idx) == RoundRobin(t, current_idx)

\* the pair interval has not elapsed: continue
PairWaiting(t, current_idx) == None

\* the channel the tick selects, None when the tick waits (continue)
Candidate(t) ==
    IF last_processed = None THEN FirstChannel(source_channels)
    ELSE
      LET current_idx == IndexOf(source_channels, last_processed)
          interval_data == channel_intervals[last_processed]
      IN  IF current_idx = 0 THEN FirstChannel(source_channels)
          ELSE IF HasPair(last_processed)
                  /\ interval_data.next_channel \in Range(source_channels)
          THEN IF PairElapsed(t, last_global, interval_data.interval)
               THEN interval_data.next_channel
               ELSE PairWaiting(t, current_idx)
          ELSE RoundRobin(t, current_idx)

\* faulty variant: a selected channel is serviced whatever its own last post time
SkipsTickUnselected(t, c) == c = None

\* faulty variant: the rotation runs only while auto-forward is on
SkipsTickUnlessAuto(t, c) ==
    ~auto_forward \/ c = None \/ CoolingDown(t, channel_last_post[c], interval)

\* the tick ends in `continue`: nothing selected, or the selected channel is cooling down
SkipsTick(t, c) == c = None \/ CoolingDown(t, channel_last_post[c], interval)

\* faulty variant: the entries start at 0, the value .get(channel, 0) reads for a missing one
InitialLastPostZero(t) == 0

\* self._channel_last_post[channel] = now, for every configured channel
InitialLastPost(t) == t

\* faulty variant: stop() does not cancel the task
TaskNotCancelled(pc) == pc

\* the task after task.cancel(): CancelledError at its await ends the loop
TaskAfterCancel(pc) == "none"

\* faulty variant: the exception is not caught and ends the task
TaskDiesOnError(pc) == "none"

\* the task after an exception in the tick: logged, then asyncio.sleep(60)
TaskAfterError(pc) == "backoff"

\* the environment may still fail an operation
MayFail == faults < MaxFaults

\* faulty variant: the row is written only while forwarding is running
SaveLastMessageIfRunning(table, chat_id, m) ==
    IF state = "Running" THEN [table EXCEPT ![chat_id] = m] ELSE table

\* Repository.save_last_message: INSERT OR REPLACE of the channel's row
SaveLastMessage(table, chat_id, m) == [table EXCEPT ![chat_id] = m]

\* the value of a call that raised
Raised == -1

(***************************************************************************)
(* RunningState._forward_specific_message                                  *)
(***************************************************************************)
\* what bot.forward_message does for one chat: it returns, or raises "message to
\* forward not found" / "message can't be forwarded", or raises for the chat (the bot
\* was blocked, chat not found), or raises something else
Outcomes == {"ok", "not_found", "forbidden", "error"}

\* the chats the loop forwards to: every registered chat but the source channel itself
Targets(targets, channel_id) == SelectSeq(targets, LAMBDA t : t # channel_id)

\* faulty variant: the loop is left at the first chat whose forward raises
TriedUntilFailure(chats, outcomes) ==
    LET bad == {i \in 1..Len(chats) : outcomes[i] # "ok"}
    IN  IF bad = {} THEN chats
        ELSE SubSeq(chats, 1, CHOOSE i \in bad : \A j \in bad : i <= j)

\* the chats forward_message is called for: the try/except is inside the loop, so
\* a chat whose forward raises is followed by the next one
Tried(chats, outcomes) == chats

\* success: set to True by every forward_message call that returns
Success(outcomes) == \E i \in 1..Len(outcomes) : outcomes[i] = "ok"

\* one call, as the environment lets it run: the registry it read, the chats it
\* forwarded to with the outcome for each, and what it returned
Call(channel_id, m, chats, outcomes, result) ==
    [channel_id |-> channel_id, message_id |-> m, targets |-> target_chats,
     chats |-> chats, outcomes |-> outcomes, result |-> result]

\* the call in which the environment answers the chats of the loop with `answers`
Run(channel_id, m, answers) ==
    LET chats == Tried(Targets(target_chats, channel_id), answers)
        outcomes == SubSeq(answers, 1, Len(chats))
    IN  Call(channel_id, m, chats, outcomes, IF Success(outcomes) THEN "True" ELSE "False")

\* the runs of one call: get_target_chats raises, or the loop goes through the chats
\* (none when the registry is empty: return False)
ForwardRuns(channel_id, m) ==
    {Run(channel_id, m, answers) :
         answers \in [1..Len(Targets(target_chats, channel_id)) -> Outcomes]}
    \cup {Call(channel_id, m, <<>>, <<>>, "raise")}

\* the environment failed something in the run
Failing(run) ==
    run.result = "raise" \/ \E i \in 1..Len(run.outcomes) : run.outcomes[i] # "ok"

FailingRuns(channel_id, m) == {run \in ForwardRuns(channel_id, m) : Failing(run)}

\* the run in which the environment fails nothing
CleanRun(channel_id, m) == CHOOSE run \in ForwardRuns(channel_id, m) : ~Failing(run)

\* faulty variant: the delivery loop is left at the first call that does not succeed
BatchOverOnFailure(run, i, n) == i = n \/ run.result # "True"

\* the for loop over available_messages is over after its last element
BatchOver(run, i, n) == i = n

\* self.context.find_latest_message(next_channel): BotContext defines no method of that
\* name (the search is ForwarderBot.find_latest_message), so the attribute lookup raises
\* before any probe is made, whatever the channel holds
ContextFindLatest(c) == Raised

\* faulty variant: the channel given up on counts as processed
ProcessedAdvanced(p, c) == c

\* _last_processed_channel after the `continue` of a tick that found no message id
ProcessedUnresolved(p, c) == p

\* faulty variant: a channel with no message id is left unstamped
StampOmitted(table, c, t) == table

\* self._channel_last_post[next_channel] = now, on both paths that find no message id
StampUnresolved(table, c, t) == [table EXCEPT ![c] = t]

(***************************************************************************)
(* Initial states: BotContext.__init__ (Idle) over a configuration         *)
(***************************************************************************)
NoPairs == [c \in Channels |-> NoPair]

\* no administrator command has been handled
NoCommand ==
    [op |-> None, channel |-> None, next_channel |-> None, seconds |-> 0,
     list |-> <<>>, before |-> NoPairs]

\* a row of table channel_intervals (channel_id, next_channel_id, interval_seconds)
Row(channel1, channel2, seconds) ==
    [channel_id |-> channel1, next_channel_id |-> channel2, interval_seconds |-> seconds]

\* the rows that hold a table of pair records
RowsOf(table) ==
    {Row(c, table[c].next_channel, table[c].interval) : c \in {x \in Channels : table[x] # NoPair}}

\* Repository.get_channel_intervals: one dict entry per channel_id that has a row
GetChannelIntervals(rows) ==
    [c \in Channels |->
        IF \E r \in rows : r.channel_id = c
        THEN LET r == CHOOSE x \in rows : x.channel_id = c
             IN  [next_channel |-> r.next_channel_id, interval |-> r.interval_seconds]
        ELSE NoPair]

\* DELETE FROM channel_intervals WHERE channel_id = ?
DeleteRows(rows, channel) == {r \in rows : r.channel_id # channel}

\* faulty variant: the row is inserted beside the rows the table holds
InsertBeside(rows, row) == rows \cup {row}

\* INSERT OR REPLACE INTO channel_intervals: channel_id is the primary key, the row
\* that holds the same channel_id is replaced
InsertOrReplace(rows, row) == DeleteRows(rows, row.channel_id) \cup {row}

\* the rows after the statements that take the dict `before` to the dict `after`: a
\* DELETE for each entry dropped, an INSERT OR REPLACE for each entry written
WriteBack(rows, before, after) ==
    UNION {IF after[c] = before[c] THEN {r \in rows : r.channel_id = c}
           ELSE IF after[c] = NoPair THEN {}
           ELSE InsertOrReplace({r \in rows : r.channel_id = c},
                                Row(c, after[c].next_channel, after[c].interval))
           : c \in Channels}

InitWith(chs, add, rem, g, pairs, lm, arr, rep, at) ==
    /\ now = ClockOrigin /\ instants = {ClockOrigin + d : d \in at}
    /\ arrivals = arr /\ repeatable = rep /\ addable = add /\ removable = rem /\ faults = 0 /\ starts = 0
    /\ state = "Idle" /\ auto_forward = FALSE
    /\ repost_interval = g
    /\ source_channels = chs
    /\ channel_intervals = pairs /\ interval_rows = RowsOf(pairs)
    /\ issued = NoCommand /\ offered = {} /\ interval_changed = -1
    /\ last_messages = lm
    /\ interval = 0
    /\ channel_last_post = [c \in Channels |-> 0]
    /\ last_processed = None /\ last_global = 0
    /\ pending = [c \in Channels |-> <<>>]
    /\ unavailable = EmptyCache
    /\ task_pc = "none" /\ wake = 0 /\ tasks = 0
    /\ tick_now = 0 /\ message_id = 0 /\ next_channel = None /\ tick_last_post_time = 0
    /\ message_ids = <<>> /\ available = <<>> /\ send_i = 0 /\ counts = NoCounts
    /\ merged = <<>> /\ sent = <<>> /\ batch = NoBatch
    /\ delivered = {} /\ redelivered = {} /\ marked = EmptyCache
    /\ batch_prev = [c \in Channels |-> -1]
    /\ batch_cur = [c \in Channels |-> -1]
    /\ sel = NoSelection /\ last_window = NoWindow /\ started = -1 /\ configured = {}
    /\ inbound = NoPost /\ forward = NoCalls
    /\ unresolved = [c \in Channels |-> -1]

\* the registry holds one chat
OneTarget == <<"T1">>

\* no channel held a post before the bot saw it
NothingUnseen == [c \in Channels |-> 0]

\* C held the posts 1..7 before the bot saw it
UnseenElsewhere == [c \in Channels |-> IF c = "C" THEN 7 ELSE 0]

\* the last_messages rows at the start: A has two messages, B one, C has no row
Stored == [c \in Channels |-> IF c = "A" THEN 2 ELSE IF c = "B" THEN 1 ELSE 0]

\* ids still to arrive: one more in A and in B
Arriving == [c \in Channels |-> IF c = "A" THEN {3} ELSE IF c = "B" THEN {2} ELSE {}]

\* ids still to arrive: one more in A
ArrivingOne == [c \in Channels |-> IF c = "A" THEN {3} ELSE {}]

\* ids still to arrive: two in B, of which one more than ten ahead
ArrivingFar == [c \in Channels |-> IF c = "B" THEN {2, 13} ELSE {}]

\* ids still to arrive: one more in B
ArrivingFew == [c \in Channels |-> IF c = "B" THEN {2} ELSE {}]

\* two channels, one channel, or none yet and A still to be added (a channel that is
\* added may be removed again); a one-minute interval, no pair intervals; the clock is
\* read just before and at one and two intervals
Init ==
    \E cfg \in {<< <<"A", "B">>, {} >>, << <<"A">>, {} >>, << <<>>, {"A"} >>} :
        /\ InitWith(cfg[1], cfg[2], cfg[2], 60, NoPairs, Stored, Arriving, {},
                    {50, 60, 110, 120})
        /\ unseen = NothingUnseen /\ target_chats = OneTarget /\ restarts = 0
        /\ username = NoUsernames /\ commands = 0

\* the default interval and a two-minute pair interval from A to B, set from a keyboard
\* drawn while the list was A, B; the list is A, C now and B is still to be added back
InitPair ==
    /\ InitWith(<<"A", "C">>, {"B"}, {"C"}, DefaultInterval,
                [NoPairs EXCEPT !["A"] = [next_channel |-> "B", interval |-> 120]],
                Stored, ArrivingFew, {}, {3600, 3710, 3721, 3840})
    /\ unseen = NothingUnseen /\ target_chats = OneTarget /\ restarts = 0
        /\ username = NoUsernames /\ commands = 0

\* channel B alone, or no channel yet and C still to be added and then removable; C
\* has no row and held seven posts before the bot saw it; a one-minute interval, the
\* clock read at one and two intervals
InitWindow ==
    \E cfg \in {<< <<"B">>, {} >>, << <<>>, {"C"} >>} :
        /\ InitWith(cfg[1], cfg[2], cfg[2], 60, NoPairs, Stored, ArrivingFar, {}, {60, 120})
        /\ unseen = UnseenElsewhere /\ target_chats = OneTarget /\ restarts = 0
        /\ username = NoUsernames /\ commands = 0

\* one channel, configured or still to be added and then removable; a fifteen-minute
\* interval, the clock read every fifteen minutes and one second before the last reading
InitExpiry ==
    \E cfg \in {<< <<"A">>, {} >>, << <<>>, {"A"} >>} :
        /\ InitWith(cfg[1], cfg[2], cfg[2], 900, NoPairs, Stored, ArrivingOne, {},
                    {900, 1800, 2699, 2700})
        /\ unseen = NothingUnseen /\ target_chats = OneTarget /\ restarts = 0
        /\ username = NoUsernames /\ commands = 0

\* the last_messages rows at the start: A has one message, B and C have no row
StoredFirst == [c \in Channels |-> IF c = "A" THEN 1 ELSE 0]

\* ids still to arrive: one in A, two in B
ArrivingBoth == [c \in Channels |-> IF c = "A" THEN {2} ELSE IF c = "B" THEN {1, 2} ELSE {}]

\* channels A and B, or no channel yet and A still to be added and then removable; a
\* one-minute interval and a twenty-second pair interval from A to B; the update of A's
\* last post may come twice; the clock is read at the first tick, and ten and thirty
\* seconds after one interval
InitInbound ==
    \E cfg \in {<< <<"A", "B">>, {} >>, << <<>>, {"A"} >>} :
        /\ InitWith(cfg[1], cfg[2], cfg[2], 60,
                    [NoPairs EXCEPT !["A"] = [next_channel |-> "B", interval |-> 20]],
                    StoredFirst, ArrivingBoth, {"A"}, {10, 70, 90})
        /\ unseen = NothingUnseen /\ target_chats = OneTarget /\ restarts = 0
        /\ username = NoUsernames /\ commands = 0

\* the last_messages rows of the two-channel scenario
StoredScenario == [c \in Channels |-> IF c = "A" THEN 100 ELSE IF c = "B" THEN 50 ELSE 0]

\* ids still to arrive: one in the chat C
ArrivingElsewhere == [c \in Channels |-> IF c = "C" THEN {1} ELSE {}]

\* channels A and B, or no channel yet and C still to be added and then removable; a
\* one-minute interval, no pair intervals; the clock is read 61 s, 62 s, 71 s and
\* 121 s after the start
InitScenario ==
    \E cfg \in {<< <<"A", "B">>, {} >>, << <<>>, {"C"} >>} :
        /\ InitWith(cfg[1], cfg[2], cfg[2], 60, NoPairs, StoredScenario,
                    ArrivingElsewhere, {}, {61, 62, 71, 121})
        /\ unseen = NothingUnseen /\ target_chats = OneTarget /\ restarts = 0
        /\ username = NoUsernames /\ commands = 0

\* the registries of the scenario: empty, the source channel's own id alone, and two
\* chats with the source channel's id between them
Registries == {<<>>, <<"A">>, <<"T1", "A", "T2">>}

\* one channel, configured or still to be added and then removable, over each
\* registry; a one-minute interval, the clock read at one and two intervals
InitTargets ==
    \E reg \in Registries : \E cfg \in {<< <<"A">>, {} >>, << <<>>, {"A"} >>} :
        /\ InitWith(cfg[1], cfg[2], cfg[2], 60, NoPairs, Stored, ArrivingOne, {}, {60, 120})
        /\ unseen = NothingUnseen /\ target_chats = reg /\ restarts = 0
        /\ username = NoUsernames /\ commands = 0

\* one channel, configured or still to be added and then removable; the bot may be
\* started once more after a stop; a one-minute interval, the clock read at one and
\* two intervals
InitRestart ==
    \E cfg \in {<< <<"A">>, {} >>, << <<>>, {"A"} >>} :
        /\ InitWith(cfg[1], cfg[2], cfg[2], 60, NoPairs, Stored, ArrivingOne, {}, {60, 120})
        /\ unseen = NothingUnseen /\ target_chats = OneTarget /\ restarts = 1
        /\ username = NoUsernames /\ commands = 0

\* channels C and A, of which C has no row, or no channel yet and A still to be added
\* and then removable; a one-minute interval, the clock read at one and two intervals
InitStuck ==
    \E cfg \in {<< <<"C", "A">>, {} >>, << <<>>, {"A"} >>} :
        /\ InitWith(cfg[1], cfg[2], cfg[2], 60, NoPairs, Stored, ArrivingOne, {}, {60, 120})
        /\ unseen = NothingUnseen /\ target_chats = OneTarget /\ restarts = 0
        /\ username = NoUsernames /\ commands = 0

\* the last_messages rows at the start: one message in each channel
StoredOnes == [c \in Channels |-> 1]

\* no id is still to arrive
ArrivingNone == [c \in Channels |-> {}]

\* the clock readings of the rotation scenario, in seconds after the origin
RotationInstants == {60, 120, 180, 240}

\* channels A and B with a stored id each, no pair interval, no post to come; a
\* one-minute interval, the clock read at one to four intervals
InitRotation ==
    /\ InitWith(<<"A", "B">>, {}, {}, 60, NoPairs, StoredOnes, ArrivingNone, {},
                RotationInstants)
    /\ unseen = NothingUnseen /\ target_chats = OneTarget /\ restarts = 0
        /\ username = NoUsernames /\ commands = 0

\* channels A and C, B may be added and C removed; a one-minute interval and a pair
\* interval of a hundred seconds from A to B, set from a keyboard drawn while B was in
\* the list; the clock is read one, two and three intervals after the start, and a
\* hundred seconds after the first interval
InitLongPair ==
    /\ InitWith(<<"A", "C">>, {"B"}, {"C"}, 60,
                [NoPairs EXCEPT !["A"] = [next_channel |-> "B", interval |-> 100]],
                StoredOnes, ArrivingFew, {}, {60, 120, 160, 180})
    /\ unseen = NothingUnseen /\ target_chats = OneTarget /\ restarts = 0
        /\ username = NoUsernames /\ commands = 0

\* the chat C is known by the handle "news"
HandleOfC == [NoUsernames EXCEPT !["C"] = "news"]

\* channel A and the channel configured by its handle as "News", whose chat is C, or no
\* channel yet and A still to be added and then removable; A has one message, one post
\* is to come in C; a one-minute interval, the clock read at one and two intervals
InitHandle ==
    \E cfg \in {<< <<"A", "News">>, {} >>, << <<>>, {"A"} >>} :
        /\ InitWith(cfg[1], cfg[2], cfg[2], 60, NoPairs, StoredFirst, ArrivingElsewhere, {},
                    {60, 120})
        /\ unseen = NothingUnseen /\ target_chats = OneTarget /\ restarts = 0
        /\ username = HandleOfC /\ commands = 0

\* channels A, B and C with no pair interval; B may be added once more, each channel
\* may be removed once, as may "News", which is not in the list, and the administrator
\* has four commands of the reorder and interval menus
InitOrder ==
    /\ InitWith(<<"A", "B", "C">>, {"B"}, Channels, 60, NoPairs, StoredOnes,
                ArrivingNone, {}, {60})
    /\ unseen = NothingUnseen /\ target_chats = OneTarget /\ restarts = 0
    /\ username = NoUsernames /\ commands = 4

\* channels A and B with a stored id each and one post to come in A; a one-minute
\* interval, which the administrator may change to five minutes; the bot may be started
\* once more after a stop and the administrator has two commands; the clock is read at
\* one and two minutes, and at five minutes after the first of these
InitAdmin ==
    /\ InitWith(<<"A", "B">>, {}, {}, 60, NoPairs, StoredOnes, ArrivingOne, {},
                {60, 120, 360})
    /\ unseen = NothingUnseen /\ target_chats = OneTarget /\ restarts = 1
    /\ username = NoUsernames /\ commands = 2

(***************************************************************************)
(* The clock                                                               *)
(***************************************************************************)
\* the clock's origin is the first start: before it nothing reads the clock
\* and the database reads between the tick's clock reading and its window take no time
Advance ==
    /\ started >= 0
    /\ task_pc # "resolve"
    /\ \E t \in instants : t > now /\ now' = t
    /\ inbound' = NoPost /\ forward' = NoCalls
    /\ UNCHANGED << config_vars, faults, starts, state, auto_forward, last_messages,
                    cursor_vars, unavailable, task_vars, tick_locals, batch_history,
                    delivery_history, window_history, start_history, unresolved >>

(***************************************************************************)
(* IdleState.start, RunningState.__init__, RunningState.stop,              *)
(* RunningState.toggle_auto_forward                                        *)
(***************************************************************************)
ResetTickLocals ==
    /\ tick_now' = 0 /\ message_id' = 0 /\ next_channel' = None /\ tick_last_post_time' = 0
    /\ message_ids' = <<>> /\ available' = <<>> /\ send_i' = 0 /\ counts' = NoCounts

Start ==
    /\ state = "Idle"
    /\ starts < MaxStarts + restarts
    /\ starts' = starts + 1
    /\ state' = "Running"
    /\ interval' = repost_interval
    /\ channel_last_post' =
           [c \in Channels |-> IF c \in Range(source_channels)
                               THEN InitialLastPost(now) ELSE 0]
    /\ last_processed' = None
    /\ last_global' = now
    /\ pending' = [c \in Channels |-> <<>>]
    /\ task_pc' = "sleep" /\ wake' = now + SleepSeconds
    /\ tasks' = tasks + 1
    /\ ResetTickLocals
    /\ started' = now
    /\ configured' = Range(source_channels)
    /\ interval_changed' = -1
    /\ unresolved' = [c \in Channels |-> -1]
    /\ inbound' = NoPost /\ forward' = NoCalls
    /\ UNCHANGED << now, config_vars, faults, auto_forward, last_messages,
                    unavailable, batch_history, delivery_history, window_history >>

\* faulty variant: the Idle state takes over the flag as it stands
FlagKept(flag) == flag

\* self.auto_forward = False, handed to IdleState(self.context, self.auto_forward)
FlagAfterStop(flag) == FALSE

\* the RunningState object is dropped: its cursor is written back to the blank values
Stop ==
    /\ state = "Running"
    /\ state' = "Idle"
    /\ auto_forward' = FlagAfterStop(auto_forward)
    /\ task_pc' = TaskAfterCancel(task_pc)
    /\ tasks' = IF task_pc' = "none" THEN tasks - 1 ELSE tasks
    /\ IF task_pc' = "none"
       THEN /\ ResetTickLocals
            /\ wake' = 0
            /\ interval' = 0
            /\ channel_last_post' = [c \in Channels |-> 0]
            /\ last_processed' = None /\ last_global' = 0
            /\ pending' = [c \in Channels |-> <<>>]
       ELSE UNCHANGED << tick_locals, wake, cursor_vars >>
    /\ sel' = NoSelection
    /\ inbound' = NoPost /\ forward' = NoCalls
    /\ unresolved' = [c \in Channels |-> -1]
    /\ UNCHANGED << now, config_vars, faults, starts, last_messages, unavailable,
                    batch_history, delivery_history, last_window, start_history >>

\* the button's handler: the flag is flipped in Running, in Idle the handler only answers
ToggleAutoForward ==
    /\ auto_forward' = IF state = "Running" THEN ~auto_forward ELSE auto_forward
    /\ inbound' = NoPost /\ forward' = NoCalls
    /\ UNCHANGED << now, config_vars, faults, starts, state, last_messages, cursor_vars,
                    unavailable, task_vars, tick_locals, batch_history,
                    delivery_history, window_history, start_history, unresolved >>

(***************************************************************************)
(* ForwarderBot.add_channel_submit, Config.add_source_channel              *)
(***************************************************************************)
\* faulty variant: the channel is appended whether or not the list holds it
AddSourceChannelAgain(chs, channel) == Append(chs, channel)

\* Config.add_source_channel: the list afterwards
AddSourceChannel(chs, channel) ==
    IF channel \notin Range(chs) THEN Append(chs, channel) ELSE chs

\* Config.add_source_channel: the value returned
AddReturns(chs, channel) == channel \notin Range(chs)

\* the channel is appended to the list unless it is there; the search for its last
\* message finds none (every probe raises and is skipped), so nothing else is written
AddChannel ==
    /\ \E channel \in addable :
          /\ source_channels' = AddSourceChannel(source_channels, channel)
          /\ addable' = addable \ {channel}
    /\ inbound' = NoPost /\ forward' = NoCalls
    /\ UNCHANGED << now, scenario_vars, admin_vars, removable, repost_interval,
                    channel_intervals, interval_rows, target_chats,
                    faults, starts, state, auto_forward, last_messages, cursor_vars,
                    unavailable, task_vars, tick_locals, batch_history,
                    delivery_history, window_history, start_history, unresolved >>

(***************************************************************************)
(* ForwarderBot.remove_channel, Config.remove_source_channel,              *)
(* ForwarderBot.sync_intervals_with_order                                  *)
(***************************************************************************)
\* Config.remove_source_channel: the list afterwards; list.remove takes out the first
\* occurrence
Without(chs, channel) ==
    IF channel \notin Range(chs) THEN chs
    ELSE LET i == IndexOf(chs, channel)
         IN  SubSeq(chs, 1, i - 1) \o SubSeq(chs, i + 1, Len(chs))

\* Config.remove_source_channel: the value returned
RemoveReturns(chs, channel) == channel \in Range(chs)

\* Repository.delete_channel_interval
DeleteInterval(table, channel) == [table EXCEPT ![channel] = NoPair]

\* the interval table after sync_intervals_with_order over the list chs: the records
\* of the last channel and of channels not in the list are deleted, a record that
\* names another channel than the successor is moved to the successor
SyncIntervals(chs, table) ==
    IF chs = <<>> THEN table
    ELSE [c \in Channels |->
            IF table[c] = NoPair THEN NoPair
            ELSE IF c \notin Range(chs) \/ c = chs[Len(chs)] THEN NoPair
            ELSE LET nxt == chs[IndexOf(chs, c) + 1]
                 IN  IF table[c].next_channel = nxt THEN table[c]
                     ELSE IF table[c].interval > 0
                     THEN [next_channel |-> nxt, interval |-> table[c].interval]
                     ELSE NoPair]

\* the rows after sync_intervals_with_order over the list chs
SyncRows(chs, rows) ==
    WriteBack(rows, GetChannelIntervals(rows), SyncIntervals(chs, GetChannelIntervals(rows)))

\* the record of the channel is deleted and the table reconciled only when the channel
\* was in the list
RemoveChannel ==
    /\ \E channel \in removable :
          /\ source_channels' = Without(source_channels, channel)
          /\ interval_rows' =
                 IF RemoveReturns(source_channels, channel)
                 THEN SyncRows(source_channels', DeleteRows(interval_rows, channel))
                 ELSE interval_rows
          /\ channel_intervals' =
                 IF RemoveReturns(source_channels, channel)
                 THEN SyncIntervals(source_channels', DeleteInterval(channel_intervals, channel))
                 ELSE channel_intervals
          /\ removable' = removable \ {channel}
    /\ inbound' = NoPost /\ forward' = NoCalls
    /\ UNCHANGED << now, scenario_vars, admin_vars, addable, repost_interval, target_chats, faults,
                    starts, state,
                    auto_forward, last_messages, cursor_vars, unavailable, task_vars,
                    tick_locals, batch_history, delivery_history, window_history,
                    start_history, unresolved >>

(***************************************************************************)
(* The periodic task: RunningState._fallback_repost                        *)
(***************************************************************************)
\* forwarded_count = 0, skipped_count = len(message_ids) - len(available_messages),
\* error_count = 0
InitialCounts(ids, avail) ==
    [forwarded |-> 0, skipped |-> Len(ids) - Len(avail), errors |-> 0]

\* faulty variant: a forward that returns False is not counted
CountedUnlessFalse(c, result) ==
    IF result = "True" THEN [c EXCEPT !.forwarded = @ + 1]
    ELSE IF result = "False" THEN c
    ELSE [c EXCEPT !.errors = @ + 1]

\* the counters after one round of the delivery loop: True, False, or an exception
Counted(c, result) ==
    IF result = "True" THEN [c EXCEPT !.forwarded = @ + 1]
    ELSE IF result = "False" THEN [c EXCEPT !.skipped = @ + 1]
    ELSE [c EXCEPT !.errors = @ + 1]

\* the tick ends and the loop is back in asyncio.sleep(10)
BackToSleep == task_pc' = "sleep" /\ wake' = now + SleepSeconds

\* faulty variant: the clock is not read again, the channel's stamp is the tick's time
BookkeepingStale(c) ==
    /\ channel_last_post' = [channel_last_post EXCEPT ![c] = tick_now]
    /\ last_global' = now
    /\ last_processed' = c
    /\ UNCHANGED << interval >>
    /\ task_pc' = "sleep" /\ wake' = now + SleepSeconds

\* the three assignments after the delivery loop; `now` is read again
Bookkeeping(c) ==
    /\ channel_last_post' = [channel_last_post EXCEPT ![c] = now]
    /\ last_global' = now
    /\ last_processed' = c
    /\ UNCHANGED << interval >>
    /\ BackToSleep

\* sleep(10) is over: read the clock and the intervals, select, pass the gates
TickBegin ==
    /\ task_pc = "sleep" /\ now >= wake
    /\ IF source_channels = <<>>
       THEN BackToSleep /\ UNCHANGED << tick_locals, sel >>
       ELSE LET c == Candidate(now)
            IN  /\ sel' = [channels |-> source_channels, from |-> last_processed,
                           elapsed |-> now - last_global, cand |-> c]
                /\ IF SkipsTick(now, c)
                   THEN BackToSleep /\ UNCHANGED tick_locals
                   ELSE /\ task_pc' = "resolve" /\ wake' = wake
                        /\ tick_now' = now /\ next_channel' = c
                        /\ tick_last_post_time' = channel_last_post[c]
                        /\ UNCHANGED << message_id, message_ids, available, send_i, counts >>
    /\ inbound' = NoPost /\ forward' = NoCalls
    /\ UNCHANGED << now, tasks, config_vars, faults, starts, state, auto_forward, last_messages,
                    cursor_vars, unavailable, batch_history, delivery_history,
                    last_window, start_history, unresolved >>

\* a database read of the tick raises: caught by the loop, logged, sleep(60)
TickRaise ==
    /\ \/ task_pc = "sleep" /\ now >= wake
       \/ task_pc = "resolve"
    /\ MayFail
    /\ faults' = faults + 1
    /\ task_pc' = TaskAfterError(task_pc)
    /\ wake' = now + BackoffSeconds
    /\ inbound' = NoPost /\ forward' = NoCalls
    /\ UNCHANGED << now, tasks, config_vars, starts, state, auto_forward, last_messages,
                    cursor_vars, unavailable, tick_locals, batch_history,
                    delivery_history, window_history, start_history, unresolved >>

\* sleep(60) is over: the loop goes round to asyncio.sleep(10)
TickResume ==
    /\ task_pc = "backoff" /\ now >= wake
    /\ BackToSleep
    /\ inbound' = NoPost /\ forward' = NoCalls
    /\ UNCHANGED << now, tasks, config_vars, faults, starts, state, auto_forward, last_messages,
                    cursor_vars, unavailable, tick_locals, batch_history,
                    delivery_history, window_history, start_history, unresolved >>

\* last message id (the stored one, or the one discovered and then stored), window,
\* pending list, cache cleanup, availability checks
TickResolve ==
    /\ task_pc = "resolve"
    /\ LET c == next_channel
           stored == last_messages[c]
           latest_id == IF stored = 0 THEN ContextFindLatest(c) ELSE 0
           mid == IF stored # 0 THEN stored ELSE IF latest_id > 0 THEN latest_id ELSE 0
       IN  /\ last_messages' = IF stored = 0 /\ latest_id > 0
                                THEN SaveLastMessage(last_messages, c, latest_id)
                                ELSE last_messages
           /\ IF mid = 0
              THEN \* no row, and the discovery returns None or raises: stamp, continue
                /\ channel_last_post' = StampUnresolved(channel_last_post, c, tick_now)
                /\ unresolved' = [unresolved EXCEPT ![c] = tick_now]
                /\ last_processed' = ProcessedUnresolved(last_processed, c)
                /\ BackToSleep
                /\ UNCHANGED << interval, last_global, pending,
                                unavailable, tick_locals, batch_history, last_window >>
              ELSE LET pend == pending[c]
                       ids == MessageIds(pend, mid)
                       cache == Purge(unavailable, tick_now)
                       avail == SortById(Checked(c, ids, cache))
                   IN  /\ message_id' = mid
                       /\ message_ids' = ids
                       /\ merged' = pend
                       /\ pending' = IF pend # <<>>
                                     THEN [pending EXCEPT ![c] = PendingAfterMerge(pend)]
                                     ELSE pending
                       /\ unavailable' = cache
                       /\ available' = avail
                       /\ counts' = InitialCounts(ids, avail)
                       /\ sent' = <<>>
                       /\ batch' = [channel |-> c, at |-> tick_now, marks |-> marked]
                       /\ batch_prev' = [batch_prev EXCEPT ![c] = batch_cur[c]]
                       /\ batch_cur' = [batch_cur EXCEPT ![c] = tick_now]
                       /\ last_window' = [channel |-> c, at |-> tick_now,
                                          ids |-> Range(ids), checked |-> Range(avail),
                                          marks |-> marked]
                       /\ UNCHANGED << tick_now, next_channel, tick_last_post_time, unresolved >>
                       /\ IF avail = <<>>
                          THEN Bookkeeping(c) /\ send_i' = 0
                          ELSE /\ task_pc' = "send" /\ wake' = wake /\ send_i' = 1
                               /\ UNCHANGED << interval, channel_last_post, last_processed,
                                               last_global >>
    /\ inbound' = NoPost /\ forward' = NoCalls
    /\ UNCHANGED << now, tasks, config_vars, faults, starts, state, auto_forward,
                    delivery_history, sel, start_history >>

\* one round of the delivery loop: _forward_specific_message returns True, or returns
\* False or raises, and then the id is put in the cache; after the last round, the
\* bookkeeping
TickSend ==
    /\ task_pc = "send"
    /\ LET c == next_channel
           m == available[send_i]
       IN  \E run \in ForwardRuns(c, m) :
             /\ Failing(run) => MayFail
             /\ faults' = IF Failing(run) THEN faults + 1 ELSE faults
             /\ forward' = <<run>>
             /\ IF run.result = "True"
                THEN /\ delivered' = delivered \cup {Key(c, m)}
                     /\ redelivered' = redelivered \cup ({Key(c, m)} \cap delivered)
                     /\ UNCHANGED << unavailable, marked >>
                ELSE /\ unavailable' = Put(unavailable, Key(c, m), tick_now)
                     /\ marked' = Put(marked, Key(c, m), tick_now)
                     /\ UNCHANGED << delivered, redelivered >>
             /\ sent' = Append(sent, m)
             /\ counts' = Counted(counts, run.result)
             /\ IF BatchOver(run, send_i, Len(available))
                THEN Bookkeeping(c) /\ send_i' = 0
                ELSE /\ send_i' = send_i + 1
                     /\ UNCHANGED << task_pc, wake, interval, channel_last_post,
                                     last_processed, last_global >>
    /\ inbound' = NoPost
    /\ UNCHANGED << now, tasks, config_vars, starts, state, auto_forward, last_messages, pending,
                    tick_now, message_id, next_channel, tick_last_post_time, message_ids,
                    available, merged, batch, batch_prev, batch_cur, window_history, start_history,
                    unresolved >>

(***************************************************************************)
(* The inbound handler: ForwarderBot.handle_channel_post                   *)
(***************************************************************************)
\* str.lower over the names of the scenarios: the chat ids are digits, the handle
\* "News" is configured as it is written and reported by Telegram in small letters
Lower(name) == IF name = "News" THEN "news" ELSE name

\* faulty variant: a channel is looked for by its chat id alone
IsSourceById(chat_id) == chat_id \in Range(source_channels)

\* channel == chat_id or (username and channel.lower() == username.lower()), for some
\* channel of the list
IsSource(chat_id) ==
    \E i \in 1..Len(source_channels) :
        \/ source_channels[i] = chat_id
        \/ /\ username[chat_id] # None
           /\ Lower(source_channels[i]) = Lower(username[chat_id])

\* faulty variant: the pair's interval is not looked at
IsNextInSequenceEarly(chat_id, t) ==
    /\ last_processed # None
    /\ HasPair(last_processed)
    /\ channel_intervals[last_processed].next_channel = chat_id

\* last_processed has a pair pointing at chat_id whose interval has elapsed
IsNextInSequence(chat_id, t) ==
    /\ last_processed # None
    /\ HasPair(last_processed)
    /\ channel_intervals[last_processed].next_channel = chat_id
    /\ ~(t - last_global < channel_intervals[last_processed].interval)

\* faulty variant: the id is appended without looking
EnqueueAlways(list, m) == Append(list, m)

\* pending list with the id appended unless it is there
Enqueue(list, m) == IF m \in Range(list) THEN list ELSE Append(list, m)

\* faulty variant: the handler's delivery stamps every channel
StampInboundAll(table, chat_id, t) == [c \in Channels |-> t]

\* self.context.state._channel_last_post[chat_id] = datetime.now().timestamp()
StampInbound(table, chat_id, t) == [table EXCEPT ![chat_id] = t]

\* faulty variant: the flag is not looked at
AutoForwardIgnored(flag) == FALSE

\* if not self.context.state.auto_forward: return
AutoForwardDisabled(flag) == ~flag

\* ids arrive in ascending order; the update of the channel's last one may be
\* delivered again
ChannelPost ==
    /\ \E chat_id \in Channels : \E m \in arrivals[chat_id] :
        /\ \/ m > last_messages[chat_id]
           \/ m = last_messages[chat_id] /\ chat_id \in repeatable
        /\ IF ~IsSource(chat_id)
           THEN /\ inbound' = [chat_id |-> chat_id, message_id |-> m, calls |-> <<>>]
                /\ forward' = NoCalls
                /\ UNCHANGED << last_messages, channel_last_post, pending, unavailable,
                                faults, delivered, redelivered, last_window >>
           ELSE
            /\ last_messages' = SaveLastMessage(last_messages, chat_id, m)
            /\ IF state # "Running"
               THEN /\ inbound' = [chat_id |-> chat_id, message_id |-> m, calls |-> <<>>]
                    /\ forward' = NoCalls
                    /\ UNCHANGED << channel_last_post, pending, unavailable, faults,
                                    delivered, redelivered, last_window >>
               ELSE IF CoolingDown(now, channel_last_post[chat_id], interval)
                       /\ ~IsNextInSequence(chat_id, now)
               THEN /\ pending' = [pending EXCEPT ![chat_id] = Enqueue(@, m)]
                    /\ inbound' = [chat_id |-> chat_id, message_id |-> m, calls |-> <<>>]
                    /\ forward' = NoCalls
                    /\ UNCHANGED << channel_last_post, unavailable, faults,
                                    delivered, redelivered, last_window >>
               ELSE IF AutoForwardDisabled(auto_forward)
               THEN /\ inbound' = [chat_id |-> chat_id, message_id |-> m, calls |-> <<>>]
                    /\ forward' = NoCalls
                    /\ UNCHANGED << channel_last_post, pending, unavailable, faults,
                                    delivered, redelivered, last_window >>
               ELSE LET cache == Purge(unavailable, now)
                        avail == SortById(Checked(chat_id, BaseIds(m), cache))
                    IN  /\ unavailable' = cache
                        /\ last_window' = [channel |-> chat_id, at |-> now,
                                           ids |-> Range(BaseIds(m)),
                                           checked |-> Range(avail),
                                           marks |-> marked]
                        /\ inbound' = [chat_id |-> chat_id, message_id |-> m,
                                       calls |-> avail]
                        /\ \E failed \in SUBSET Range(avail) :
                              /\ Cardinality(failed) <= MaxFaults - faults
                              /\ faults' = faults + Cardinality(failed)
                              /\ \E how \in [failed -> UNION {FailingRuns(chat_id, x) :
                                                                  x \in failed}] :
                                   /\ \A x \in failed : how[x].message_id = x
                                   /\ LET runs == [i \in 1..Len(avail) |->
                                                     IF avail[i] \in failed
                                                     THEN how[avail[i]]
                                                     ELSE CleanRun(chat_id, avail[i])]
                                          ok == {Key(chat_id, runs[i].message_id) :
                                                   i \in {j \in 1..Len(avail) :
                                                             runs[j].result = "True"}}
                                      IN  /\ forward' = runs
                                          /\ delivered' = delivered \cup ok
                                          /\ redelivered' = redelivered \cup (ok \cap delivered)
                        /\ channel_last_post' = StampInbound(channel_last_post, chat_id, now)
                        /\ UNCHANGED pending
    /\ UNCHANGED << now, config_vars, starts, state, auto_forward, interval, last_processed,
                    last_global, task_vars, tick_locals, batch_history, marked,
                    sel, start_history, unresolved >>

(***************************************************************************)
(* Administrator commands: ForwarderBot.move_channel,                      *)
(* ForwarderBot.manage_channel_intervals, ForwarderBot.set_interval,       *)
(* RunningState.start, IdleState.stop                                      *)
(***************************************************************************)
\* a command as it is noted: what was pressed, and the list and the pair records it met
Command(op, channel1, channel2, seconds) ==
    [op |-> op, channel |-> channel1, next_channel |-> channel2, seconds |-> seconds,
     list |-> source_channels, before |-> channel_intervals]

\* the command is taken from the scenario's allowance and noted
Issue(cmd) ==
    /\ commands > 0
    /\ commands' = commands - 1
    /\ issued' = cmd
    /\ inbound' = NoPost /\ forward' = NoCalls

\* faulty variant: the neighbour is overwritten, not exchanged
Overwritten(chs, i, j) == [chs EXCEPT ![j] = chs[i]]

\* lst[idx], lst[idx-1] = lst[idx-1], lst[idx]
Swapped(chs, i, j) == [chs EXCEPT ![i] = chs[j], ![j] = chs[i]]

\* move_channel reaches its swap: the channel is in the list and has a neighbour on
\* the side it is moved to
Moves(chs, direction, channel) ==
    /\ channel \in Range(chs)
    /\ \/ direction = "up" /\ IndexOf(chs, channel) > 1
       \/ direction = "down" /\ IndexOf(chs, channel) < Len(chs)

\* the list after move_channel
Moved(chs, direction, channel) ==
    IF ~Moves(chs, direction, channel) THEN chs
    ELSE IF direction = "up"
    THEN Swapped(chs, IndexOf(chs, channel), IndexOf(chs, channel) - 1)
    ELSE Swapped(chs, IndexOf(chs, channel), IndexOf(chs, channel) + 1)

\* a press of an up or down button, which may be one of a keyboard drawn earlier; the
\* table is reconciled when the list was changed
MoveChannel ==
    /\ \E direction \in {"up", "down"} : \E channel \in Channels :
          /\ Issue(Command(direction, channel, None, 0))
          /\ source_channels' = Moved(source_channels, direction, channel)
          /\ interval_rows' =
                 IF Moves(source_channels, direction, channel)
                 THEN SyncRows(source_channels', interval_rows)
                 ELSE interval_rows
    /\ channel_intervals' = GetChannelIntervals(interval_rows')
    /\ UNCHANGED << now, scenario_vars, offered, addable, removable, repost_interval,
                    target_chats, faults, starts, state, auto_forward, last_messages,
                    cursor_vars, unavailable, task_vars, tick_locals, batch_history,
                    delivery_history, window_history, start_history, unresolved >>

\* the pairs (ch[i], ch[i+1]) of the list
AdjacentPairs(chs) == {<< chs[i], chs[i + 1] >> : i \in 1..(Len(chs) - 1)}

\* the interval menu: with two channels or more, a button for each adjacent pair, which
\* leads to the pair's keyboard of intervals
ShowIntervals ==
    /\ Len(source_channels) >= 2
    /\ Issue(Command("show", None, None, 0))
    /\ offered' = offered \cup AdjacentPairs(source_channels)
    /\ UNCHANGED << now, scenario_vars, addable, removable, repost_interval, source_channels,
                    channel_intervals, interval_rows, target_chats, faults, starts, state,
                    auto_forward, last_messages, cursor_vars, unavailable, task_vars,
                    tick_locals, batch_history, delivery_history, window_history,
                    start_history, unresolved >>

\* two of the intervals of a pair's keyboard
PairSeconds == {60, 300}

\* a press of a button set_interval_<channel1>_<channel2>_<seconds> of a keyboard drawn
\* earlier: the record is written as the button names it
SetChannelInterval ==
    /\ \E pair \in offered : \E seconds \in PairSeconds :
          /\ Issue(Command("pair", pair[1], pair[2], seconds))
          /\ interval_rows' = InsertOrReplace(interval_rows, Row(pair[1], pair[2], seconds))
    /\ channel_intervals' = GetChannelIntervals(interval_rows')
    /\ UNCHANGED << now, scenario_vars, offered, addable, removable, repost_interval,
                    source_channels, target_chats, faults, starts, state, auto_forward,
                    last_messages, cursor_vars, unavailable, task_vars, tick_locals,
                    batch_history, delivery_history, window_history, start_history,
                    unresolved >>

\* one of the intervals of the global keyboard
GlobalSeconds == {300}

\* faulty variant: the stamps are left as they are
StampKept(table, chs, t) == table

\* for channel in source_channels: _channel_last_post[channel] = now
StampAll(table, chs, t) == [c \in Channels |-> IF c \in Range(chs) THEN t ELSE table[c]]

\* a press of a button interval_<seconds>: the value is stored; a running engine takes
\* it over and restarts its cooldowns from the time of the press
SetInterval ==
    /\ \E seconds \in GlobalSeconds :
          /\ Issue(Command("interval", None, None, seconds))
          /\ repost_interval' = seconds
          /\ IF state = "Running"
             THEN /\ interval' = seconds
                  /\ channel_last_post' = StampAll(channel_last_post, source_channels, now)
                  /\ last_global' = now
                  /\ interval_changed' = now
             ELSE UNCHANGED << interval, channel_last_post, last_global, interval_changed >>
    /\ UNCHANGED << now, scenario_vars, offered, addable, removable, source_channels,
                    channel_intervals, interval_rows, target_chats, faults, starts, state,
                    auto_forward, last_messages, last_processed, pending, unavailable,
                    task_vars, tick_locals, batch_history, delivery_history,
                    window_history, started, configured, unresolved >>

\* everything but the note of the command
engine_vars == << now, scenario_vars, offered, addable, removable, repost_interval,
                 source_channels, channel_intervals, interval_rows, target_chats, faults,
                 starts, state, auto_forward, last_messages, cursor_vars, unavailable,
                 task_vars, tick_locals, batch_history, delivery_history, window_history,
                 start_history, unresolved >>

\* BotContext.start() in Running: RunningState.start is `pass`
RunningStart ==
    /\ state = "Running"
    /\ Issue(Command("start", None, None, 0))
    /\ UNCHANGED engine_vars

\* BotContext.stop() in Idle: IdleState.stop is `pass`
IdleStop ==
    /\ state = "Idle"
    /\ Issue(Command("stop", None, None, 0))
    /\ UNCHANGED engine_vars

(***************************************************************************)
(* Specifications                                                          *)
(***************************************************************************)
Next ==
    \/ Advance
    \/ Start
    \/ Stop
    \/ ToggleAutoForward
    \/ AddChannel
    \/ RemoveChannel
    \/ TickBegin
    \/ TickRaise
    \/ TickResume
    \/ TickResolve
    \/ TickSend
    \/ ChannelPost

Spec == Init /\ [][Next]_vars

SpecPair == InitPair /\ [][Next]_vars

SpecExpiry == InitExpiry /\ [][Next]_vars

SpecWindow == InitWindow /\ [][Next]_vars

SpecInbound == InitInbound /\ [][Next]_vars

SpecScenario == InitScenario /\ [][Next]_vars

SpecLongPair == InitLongPair /\ [][Next]_vars

SpecTargets == InitTargets /\ [][Next]_vars

SpecRestart == InitRestart /\ [][Next]_vars

SpecStuck == InitStuck /\ [][Next]_vars

SpecHandle == InitHandle /\ [][Next]_vars

\* the engine with a fixed list, and the administrator at the main menu: the start/stop
\* and auto-forward buttons and the keyboard of global intervals
NextAdmin ==
    \/ Advance
    \/ Start
    \/ Stop
    \/ ToggleAutoForward
    \/ TickBegin
    \/ TickRaise
    \/ TickResume
    \/ TickResolve
    \/ TickSend
    \/ ChannelPost
    \/ SetInterval
    \/ RunningStart
    \/ IdleStop

SpecAdmin == InitAdmin /\ [][NextAdmin]_vars

\* the administrator at the channel, reorder and interval menus
NextOrder ==
    \/ AddChannel
    \/ RemoveChannel
    \/ MoveChannel
    \/ ShowIntervals
    \/ SetChannelInterval

SpecOrder == InitOrder /\ [][NextOrder]_vars

\* the periodic task alone, once the bot is started and with time passing: the event
\* loop resumes the task whenever its sleep is over or its awaited call has returned
NextRotation ==
    \/ Advance
    \/ Start
    \/ TickBegin
    \/ TickRaise
    \/ TickResume
    \/ TickResolve
    \/ TickSend

SpecRotation ==
    /\ InitRotation /\ [][NextRotation]_vars
    /\ WF_vars(Advance)
    /\ WF_vars(TickBegin) /\ WF_vars(TickResume)
    /\ WF_vars(TickResolve) /\ WF_vars(TickSend)

(***************************************************************************)
(* Properties                                                              *)
(***************************************************************************)
\* a window has been built by the periodic task and its locals are still there
WindowBuilt == message_ids # <<>>

Ascending(s) == \A i \in 1..(Len(s) - 1) : s[i] < s[i + 1]

C2_PendingMerged == WindowBuilt => Range(merged) \subseteq Range(message_ids)

\* C3: the forward calls of one periodic batch are issued in strictly ascending
\* message-id order
C3_AscendingCalls == Ascending(sent)

\* id 1 is suppressed: the calls of the batch are for 2 and then 3
C3_Witness ==
    /\ sent = <<2, 3>> /\ batch.channel = "A"
    /\ Key("A", 1) \in DOMAIN batch.marks

\* C4: with no pair interval, the starts of two consecutive periodic batches of a
\* channel are at least the global interval apart
C4_BatchesApart ==
    \A c \in Channels :
        batch_prev[c] >= 0 => batch_cur[c] - batch_prev[c] >= repost_interval

\* a channel's second batch, exactly one interval after its first
C4_Witness ==
    \E c \in Channels : batch_prev[c] >= 0 /\ batch_cur[c] - batch_prev[c] = repost_interval

C5_Case ==
    /\ sel.from = "A"
    /\ channel_intervals["A"] = [next_channel |-> "B", interval |-> 120]
    /\ "B" \in Range(sel.channels)
    /\ interval = 3600
    /\ sel.elapsed = 121

\* C5: last processed channel A, pair interval A -> B of 120 s, B in the list,
\* global interval 3600 s, last global post 121 s ago: the tick's candidate is B
C5_PairPrecedence == C5_Case => sel.cand = "B"

\* the list is A, C, B: the round-robin successor of A is C, and B is past both gates
C5_Witness ==
    /\ C5_Case /\ sel.cand = "B"
    /\ sel.channels[IndexOf(sel.channels, "A") + 1] = "C"
    /\ task_pc = "resolve" /\ next_channel = "B"

\* the last mark of the key was made less than 30 minutes before the instant t
Suppressed(marks, c, m, t) ==
    /\ Key(c, m) \in DOMAIN marks
    /\ t - marks[Key(c, m)] < 1800

C7_AtMostOnce == redelivered = {}

\* C7: within one periodic batch no message id gets two forward calls (across batches
\* there is no such bound: a later batch forwards the ids of its window again)
C7_OncePerBatch ==
    \A i, j \in 1..Len(sent) : i # j => sent[i] # sent[j]

\* every call of this batch repeats a delivery of an earlier batch
C7_Witness ==
    /\ redelivered # {}
    /\ Len(sent) >= 2
    /\ \A i \in 1..Len(sent) : Key(next_channel, sent[i]) \in redelivered

C8_StartStep ==
    (state = "Idle" /\ state' = "Running") =>
        /\ last_processed' = None
        /\ \A c \in Channels : pending'[c] = <<>>
        /\ \A c \in Range(source_channels) : channel_last_post'[c] = now'
        /\ last_global' = now'
        /\ interval' = repost_interval
        /\ task_pc' = "sleep"

C8_NoEarlyServiceOfConfigured ==
    (state = "Running" /\ task_pc \in {"resolve", "send"}
        /\ next_channel \in configured) =>
            tick_now - started >= interval

C9_IdleStep ==
    state = "Idle" =>
        /\ sent' = sent
        /\ delivered' = delivered
        /\ redelivered' = redelivered

\* C9: in Idle the auto-forward flag is false and there is no periodic task, and no
\* step taken in Idle issues a forward call or delivers a message
C9_Stopped ==
    /\ [](state = "Idle" => (~auto_forward /\ task_pc = "none"))
    /\ [][C9_IdleStep]_vars

\* stopped in the middle of A's first batch: one call made, the second never made
C9_Witness ==
    /\ state = "Idle" /\ started >= 0
    /\ sent = <<1>> /\ delivered = {Key("A", 1)}
    /\ last_window.channel = "A" /\ last_window.checked = {1, 2}

C10_BackoffStep ==
    (task_pc = "backoff" /\ task_pc' # "backoff" /\ state' = "Running") =>
        /\ task_pc' = "sleep"
        /\ now >= wake
        /\ wake' = now + SleepSeconds

\* C10: while Running the periodic task exists; an exception in a tick puts it in
\* the backoff sleep with the state still Running, and when that sleep is over it
\* goes back to the loop's sleep
C10_TaskSurvives ==
    /\ [](state = "Running" => task_pc # "none")
    /\ [](task_pc = "backoff" => state = "Running")
    /\ [][C10_BackoffStep]_vars

\* the one failure was an exception in a tick (no id is marked, nothing was delivered
\* by the inbound handler): the task slept 60 s and a later tick is delivering
C10_Witness ==
    /\ state = "Running" /\ task_pc = "send"
    /\ faults = 1 /\ marked = EmptyCache /\ ~auto_forward /\ delivered = {}
    /\ tick_now >= started + BackoffSeconds + SleepSeconds

(***************************************************************************)
(* The inbound handler                                                     *)
(***************************************************************************)
\* the step handles a channel post
Handled == inbound'.chat_id # None

C11_PostStep ==
    Handled =>
        LET c == inbound'.chat_id
            m == inbound'.message_id
        IN  IF c \in Range(source_channels)
            THEN /\ last_messages'[c] = m
                 /\ \A d \in Channels \ {c} : last_messages'[d] = last_messages[d]
            ELSE UNCHANGED << last_messages, channel_intervals, repost_interval,
                              source_channels, cursor_vars, unavailable, delivered >>

Waiting(c) == now - channel_last_post[c] < interval

NextInSequence(c) ==
    /\ last_processed # None
    /\ channel_intervals[last_processed].next_channel = c
    /\ now - last_global >= channel_intervals[last_processed].interval

C12_PostStep ==
    LET c == inbound'.chat_id
        m == inbound'.message_id
    IN  (/\ Handled /\ state = "Running" /\ c \in Range(source_channels)
         /\ Waiting(c) /\ ~NextInSequence(c)) =>
            /\ pending'[c] = IF \E i \in 1..Len(pending[c]) : pending[c][i] = m
                             THEN pending[c]
                             ELSE pending[c] \o <<m>>
            /\ \A d \in Channels \ {c} : pending'[d] = pending[d]
            /\ inbound'.calls = <<>>
            /\ delivered' = delivered
            /\ channel_last_post' = channel_last_post

C12_NoDuplicate ==
    \A c \in Channels : \A i, j \in 1..Len(pending[c]) : i # j => pending[c][i] # pending[c][j]

\* C12: in Running, the step handling a post of a source channel that is waiting and
\* is not next in sequence appends the id to the channel's pending list unless it is
\* there, makes no forward call and leaves the channel's stamp alone; no pending list
\* ever holds an id twice
C12_Enqueued == [][C12_PostStep]_vars /\ []C12_NoDuplicate

\* ten seconds after the start, auto-forward on: A's post is enqueued, nothing is sent
C12_Witness ==
    /\ inbound = [chat_id |-> "A", message_id |-> 2, calls |-> <<>>]
    /\ state = "Running" /\ auto_forward
    /\ now - channel_last_post["A"] = 10 /\ interval = 60
    /\ pending["A"] = <<2>> /\ delivered = {}

C13_PostStep ==
    LET c == inbound'.chat_id
    IN  Handled =>
          /\ inbound'.calls # <<>> =>
                /\ state = "Running" /\ auto_forward
                /\ c \in Range(source_channels)
                /\ ~(Waiting(c) /\ ~NextInSequence(c))
          /\ (state = "Idle" \/ ~auto_forward) =>
                /\ inbound'.calls = <<>>
                /\ channel_last_post' = channel_last_post
                /\ delivered' = delivered /\ redelivered' = redelivered

\* C13: the step handling a post makes forward calls only in Running with auto-forward
\* on and the channel not (waiting and not next in sequence); in Idle, and in Running
\* with auto-forward off, it makes none and changes no channel's stamp
C13_ForwardOnlyIf == [][C13_PostStep]_vars

\* auto-forward on, twenty seconds after A's periodic batch: B's post is forwarded by
\* the handler together with the id before it
C13_Witness ==
    /\ inbound = [chat_id |-> "B", message_id |-> 2, calls |-> <<1, 2>>]
    /\ state = "Running" /\ auto_forward
    /\ last_processed = "A" /\ now - last_global = 20
    /\ channel_last_post["B"] = now

(***************************************************************************)
(* The auto-forward flag and the rotation                                  *)
(***************************************************************************)
C14_ToggleStep ==
    (state = "Running" /\ state' = "Running" /\ auto_forward' # auto_forward) =>
        /\ auto_forward' = ~auto_forward
        /\ UNCHANGED << now, config_vars, last_messages, cursor_vars, unavailable,
                        task_pc, wake, tick_locals, delivered, redelivered, sent >>

C14_IdleStep == state = "Idle" => auto_forward' = auto_forward

\* a step of the periodic task leaves the flag alone, and a tick that goes back to
\* sleep without selecting or servicing does so for the list or the gates only
C14_TickStep ==
    (state = "Running" /\ state' = "Running" /\ (task_pc' # task_pc \/ wake' # wake)) =>
        /\ auto_forward' = auto_forward
        /\ (task_pc = "sleep" /\ task_pc' = "sleep") =>
              \/ source_channels = <<>>
              \/ sel'.cand = None
              \/ now - channel_last_post[sel'.cand] < interval

\* C14: a toggle in Running changes the flag and nothing else, no step taken in Idle
\* changes the flag, and the periodic task neither writes the flag nor skips a tick
\* because of it
C14_FlagOnly ==
    /\ [][C14_ToggleStep]_vars
    /\ [][C14_IdleStep]_vars
    /\ [][C14_TickStep]_vars

\* the flag was switched on and the periodic task is in the middle of A's batch, of
\* which nothing came from the inbound handler
C14_Witness ==
    /\ state = "Running" /\ auto_forward
    /\ task_pc = "send" /\ next_channel = "A" /\ sent = <<1>>
    /\ delivered = {Key("A", 1)} /\ last_window.at = tick_now

(***************************************************************************)
(* The two-channel scenario: list A, B; interval 60 s; no pair intervals;  *)
(* last messages 100 and 50; Running entered at t = 0                      *)
(***************************************************************************)
ScenarioSetting ==
    /\ state = "Running" /\ started = ClockOrigin /\ interval = 60
    /\ sel.channels = <<"A", "B">>
    /\ \A c \in Channels : channel_intervals[c].next_channel = None
    /\ last_messages["A"] = 100 /\ last_messages["B"] = 50

\* the tick at t = 61, nothing processed yet
C15_Case == ScenarioSetting /\ sel.from = None /\ sel.elapsed = 61

C15_Servicing == C15_Case /\ task_pc = "send" /\ tick_now = started + 61

C16_Case ==
    /\ ScenarioSetting /\ sel.from = "A"
    /\ batch_cur["A"] = started + 61 /\ last_global = started + 61

Selected == sel.channels # <<>>

InList(c, chs) == \E i \in 1..Len(chs) : chs[i] = c

\* C17: a tick that finds no processed channel, or a last processed channel that is
\* not in the list, has the first channel of the list as its candidate
C17_RestartFromFirst ==
    (Selected /\ (sel.from = None \/ ~InList(sel.from, sel.channels))) =>
        sel.cand = sel.channels[1]

\* C was processed and then removed: the next tick selects A, the head of the list,
\* forty seconds after C's batch, and A passes its own gate
C17_Witness ==
    /\ sel.from = "C" /\ sel.channels = <<"A">> /\ sel.cand = "A"
    /\ sel.elapsed = 40 /\ interval = 60
    /\ task_pc = "resolve" /\ next_channel = "A"

\* the step is a tick of the periodic task that goes as far as selecting
TickSelects ==
    /\ state = "Running" /\ task_pc = "sleep" /\ source_channels # <<>>
    /\ \/ task_pc' = "resolve"
       \/ task_pc' = "sleep" /\ wake' # wake

\* the last processed channel is in the list and has a pair record whose next channel
\* is in the list
PairInForce ==
    /\ last_processed # None
    /\ InList(last_processed, source_channels)
    /\ channel_intervals[last_processed].next_channel # None
    /\ InList(channel_intervals[last_processed].next_channel, source_channels)

\* the tick ends without a candidate: nothing is delivered, no cursor field changes
NothingSelected ==
    /\ task_pc' = "sleep" /\ sel'.cand = None
    /\ UNCHANGED << cursor_vars, unavailable, last_messages, tick_locals,
                    sent, delivered, redelivered >>

C18_TickStep ==
    (/\ TickSelects /\ PairInForce
     /\ now - last_global < channel_intervals[last_processed].interval) =>
        NothingSelected

Following(chs, i) == IF i = Len(chs) THEN chs[1] ELSE chs[i + 1]

C19_TickStep ==
    (/\ TickSelects /\ last_processed # None /\ InList(last_processed, source_channels)
     /\ ~PairInForce) =>
        IF now - last_global < interval
        THEN NothingSelected
        ELSE \E i \in 1..Len(source_channels) :
                /\ source_channels[i] = last_processed
                /\ sel'.cand = Following(source_channels, i)

\* C19: a tick that finds the last processed channel in the list, with no pair or with
\* a pair whose next channel is not in the list, selects nothing while the global
\* interval has not elapsed since the last global post, and otherwise selects the
\* channel after it in the list, the first one when it is the last
C19_RoundRobin == [][C19_TickStep]_vars

\* list A, C with A's pair naming B, which is not in the list: C had its batch one
\* interval after A's, and one interval later the tick wraps from C to A
C19_Witness ==
    /\ sel.from = "C" /\ sel.channels = <<"A", "C">> /\ sel.cand = "A"
    /\ sel.elapsed = 60 /\ interval = 60
    /\ channel_intervals["A"] = [next_channel |-> "B", interval |-> 100]
    /\ batch_cur["C"] - batch_cur["A"] = 60
    /\ task_pc = "resolve" /\ next_channel = "A"

C20_TickStep ==
    (/\ TickSelects /\ sel'.cand # None
     /\ now - channel_last_post[sel'.cand] < interval) =>
        /\ task_pc' = "sleep"
        /\ UNCHANGED << cursor_vars, unavailable, last_messages, tick_locals,
                        sent, delivered, redelivered >>

\* C20: a tick whose candidate had its last post less than the global interval ago
\* goes back to sleep: no window, no forward call, no cursor field changed; so too when
\* the candidate comes from an elapsed pair interval
C20_ChannelGate == [][C20_TickStep]_vars

\* A's pair of 120 s has elapsed and B is the candidate, but the inbound handler
\* forwarded B's post less than the global interval of 3600 s ago: the tick went back
\* to sleep and A is still the last processed channel
C20_Witness ==
    /\ sel.from = "A" /\ sel.cand = "B" /\ sel.elapsed = 121 /\ interval = 3600
    /\ channel_intervals["A"] = [next_channel |-> "B", interval |-> 120]
    /\ now - last_global = 121 /\ last_processed = "A"
    /\ now - channel_last_post["B"] < 3600
    /\ task_pc = "sleep" /\ wake = now + SleepSeconds

(***************************************************************************)
(* A candidate with no last message id                                     *)
(***************************************************************************)
\* the step is the tick's resolution of a candidate that has no row in last_messages
ResolvesUnknown ==
    /\ task_pc = "resolve" /\ task_pc' \in {"sleep", "send"}
    /\ last_messages[next_channel] = 0

C21_ResolveStep ==
    (ResolvesUnknown /\ unseen[next_channel] > 0) =>
        /\ last_messages'[next_channel] = unseen[next_channel]
        /\ task_pc' = "send"
        /\ message_id' = unseen[next_channel]
        /\ message_ids' # <<>> /\ message_ids'[Len(message_ids')] = unseen[next_channel]

\* C21: a tick whose candidate has no row, in a channel whose newest post d a probe of
\* the transport would find, stores d as the channel's last message and goes on to
\* deliver the window that ends at d
C21_Discovered == [][C21_ResolveStep]_vars

\* C holds the posts 1..7 and has no row: a tick resolved it, found no id, and the row
\* is still missing
C21_Witness ==
    /\ unseen["C"] = 7 /\ last_messages["C"] = 0
    /\ unresolved["C"] = now /\ channel_last_post["C"] = now
    /\ sel.cand = "C" /\ task_pc = "sleep" /\ sent = <<>>

C22_ResolveStep ==
    ResolvesUnknown =>
        /\ channel_last_post'[next_channel] = tick_now /\ tick_now = now
        /\ \A d \in Channels \ {next_channel} : channel_last_post'[d] = channel_last_post[d]
        /\ task_pc' = "sleep"
        /\ UNCHANGED << sent, delivered, redelivered, last_messages, last_processed,
                        last_global, pending, unavailable >>

C22_NoEarlyRetry ==
    task_pc = "resolve" =>
        \/ unresolved[next_channel] < 0
        \/ tick_now - unresolved[next_channel] >= interval

\* C22: a tick that finds no row for its candidate, and whose discovery gives nothing,
\* stamps the candidate with the tick's time, makes no forward call and goes back to
\* sleep; no later tick of the run gets past the gates for that channel before the
\* global interval has elapsed since the stamp
C22_StampedAnyway == [][C22_ResolveStep]_vars /\ []C22_NoEarlyRetry

\* C was stamped at t = 61 with no id found; the tick at t = 71 selected C again and
\* went back to sleep at C's gate
C22_Witness ==
    /\ unresolved["C"] = started + 61 /\ channel_last_post["C"] = started + 61
    /\ now = started + 71 /\ interval = 60
    /\ sel.cand = "C" /\ task_pc = "sleep" /\ wake = now + SleepSeconds
    /\ last_messages["C"] = 0 /\ delivered = {}

(***************************************************************************)
(* Delivery: the periodic batch, the inbound batch, one forward call       *)
(***************************************************************************)
\* the step is a round of the periodic delivery loop
SendsOne == task_pc = "send" /\ forward' # NoCalls /\ inbound' = NoPost

C23_SendStep ==
    SendsOne =>
        /\ Len(forward') = 1
        /\ forward'[1].channel_id = next_channel
        /\ forward'[1].message_id = available[send_i]
        /\ sent' = Append(sent, available[send_i])
        /\ available' = available
        /\ IF send_i < Len(available)
           THEN task_pc' = "send" /\ send_i' = send_i + 1
           ELSE task_pc' = "sleep" /\ sent' = available

C23_Progress ==
    task_pc = "send" =>
        /\ send_i \in 1..Len(available)
        /\ sent = SubSeq(available, 1, send_i - 1)

\* C23: every round of the periodic delivery loop calls the forward for the next id
\* of the available list and goes on to the one after it, whatever the call returned
\* or raised; when the loop ends the calls made are the available list, each id once
C23_AllAttempted == [][C23_SendStep]_vars /\ []C23_Progress

\* the forward of id 1 failed and was put in the cache, the forward of id 2 was made
\* after it and succeeded, and the batch is complete
C23_Witness ==
    /\ task_pc = "sleep" /\ last_processed = "A" /\ batch.channel = "A"
    /\ sent = <<1, 2>> /\ last_window.checked = {1, 2}
    /\ Key("A", 1) \in DOMAIN marked /\ marked[Key("A", 1)] = batch.at
    /\ Key("A", 1) \notin delivered /\ Key("A", 2) \in delivered
    /\ forward # NoCalls /\ forward[1].message_id = 2 /\ forward[1].result = "True"

\* some forward of the call raised "message to forward not found" or "message can't
\* be forwarded"
NotFoundClass(run) == \E i \in 1..Len(run.outcomes) : run.outcomes[i] = "not_found"

\* the step puts the key in the cache, or puts it there again
Inserted(k) ==
    /\ k \in DOMAIN unavailable'
    /\ k \notin DOMAIN unavailable \/ unavailable'[k] # unavailable[k]

C24_SendStep ==
    SendsOne =>
        LET run == forward'[1]
        IN  Inserted(Key(run.channel_id, run.message_id)) <=>
                (run.result # "True" /\ NotFoundClass(run))

\* C24: a round of the periodic delivery loop puts the id in the cache exactly when
\* the call failed with an error of the not-found class; a call that failed because
\* the chats refused it, for another error, or for want of any chat, puts nothing there
C24_OnlyNotFound == [][C24_SendStep]_vars

\* the one registered chat has blocked the bot: the forward of A's id 1 was refused,
\* and the id is in the cache
C24_Witness ==
    /\ forward # NoCalls /\ inbound = NoPost
    /\ forward[1].channel_id = "A" /\ forward[1].message_id = 1
    /\ forward[1].chats = <<"T1">> /\ forward[1].outcomes = <<"forbidden">>
    /\ forward[1].result = "False"
    /\ Key("A", 1) \in DOMAIN unavailable /\ unavailable[Key("A", 1)] = tick_now

\* the step is the inbound handler's delivery
DeliversInbound == Handled /\ inbound'.calls # <<>>

C25_PostStep ==
    DeliversInbound =>
        LET c == inbound'.chat_id
        IN  /\ \A i \in 1..Len(inbound'.calls) :
                  ~Suppressed(unavailable, c, inbound'.calls[i], now)
            /\ Ascending(inbound'.calls)
            /\ Len(forward') = Len(inbound'.calls)
            /\ \A i \in 1..Len(forward') :
                  /\ forward'[i].message_id = inbound'.calls[i]
                  /\ (forward'[i].result # "True" /\ NotFoundClass(forward'[i])) =>
                        /\ Key(c, forward'[i].message_id) \in DOMAIN unavailable'
                        /\ unavailable'[Key(c, forward'[i].message_id)] = now

\* C25: the inbound delivery leaves out the ids that are in the cache, calls the
\* forward in ascending id order, and puts an id whose forward failed with an error of
\* the not-found class in the cache with the current time
C25_SameAlgorithm == [][C25_PostStep]_vars

\* the handler forwarded A's window 1..3; the forward of id 1 raised "message to
\* forward not found", and the cache is empty
C25_Witness ==
    /\ inbound = [chat_id |-> "A", message_id |-> 3, calls |-> <<1, 2, 3>>]
    /\ forward[1].outcomes = <<"not_found">> /\ forward[1].result = "False"
    /\ unavailable = EmptyCache /\ channel_last_post["A"] = now

\* the registered chats other than the channel, in the registry's order
Others(targets, channel_id) ==
    LET keep == {i \in 1..Len(targets) : targets[i] # channel_id}
    IN  [k \in 1..Cardinality(keep) |->
            targets[CHOOSE i \in keep : Cardinality({j \in keep : j <= i}) = k]]

C27_CallStep ==
    \A n \in 1..Len(forward') :
        LET run == forward'[n]
        IN  /\ run.targets = target_chats
            /\ run.result # "raise" =>
                  /\ run.chats = Others(target_chats, run.channel_id)
                  /\ Len(run.outcomes) = Len(run.chats)
                  /\ run.result = "True" <=>
                        \E i \in 1..Len(run.outcomes) : run.outcomes[i] = "ok"
            /\ run.result = "True" =>
                  Key(run.channel_id, run.message_id) \in delivered'
            /\ (run.result # "True"
                  /\ Key(run.channel_id, run.message_id) \notin delivered) =>
                  Key(run.channel_id, run.message_id) \notin delivered'
            /\ target_chats' = target_chats

BatchOpen == task_pc \in {"resolve", "send"}

\* the step ends the tick's batch: the delivery loop is over, or the window had
\* nothing available; a tick that resolved no message id has no batch
CompletesBatch ==
    /\ task_pc = "send" \/ (task_pc = "resolve" /\ last_messages[next_channel] # 0)
    /\ task_pc' = "sleep"

\* the step is the tick's `continue` after it found no message id
GivesUpUnresolved ==
    task_pc = "resolve" /\ last_messages[next_channel] = 0 /\ task_pc' = "sleep"

C26_CompletionStep ==
    CompletesBatch =>
        /\ channel_last_post'[next_channel] = now
        /\ last_global' = now
        /\ last_processed' = next_channel
        /\ \A d \in Channels \ {next_channel} : channel_last_post'[d] = channel_last_post[d]

C26_OpenStep ==
    (BatchOpen /\ ~CompletesBatch /\ ~GivesUpUnresolved /\ inbound' = NoPost) =>
        \/ UNCHANGED << channel_last_post, last_global, last_processed >>
        \/ /\ state' = "Idle" /\ task_pc' = "none"
           /\ last_processed' # next_channel
           /\ last_global' # now
           /\ channel_last_post'[next_channel] # now

\* C26: the step that completes a periodic batch of channel C, whatever its calls
\* returned, sets channel_last_post[C] and last_global_post_time to the time read at
\* completion and last_processed_channel to C; no other step taken while the batch is
\* open writes the three fields for the tick, and a stop in the middle of the batch
\* ends the task without the bookkeeping being made
C26_Bookkeeping == [][C26_CompletionStep /\ C26_OpenStep]_vars

\* a batch of B begun at one instant made one call, which failed, and completed at a
\* later instant: both stamps are the later instant and B is the last processed channel
C26_Witness ==
    /\ state = "Running" /\ task_pc = "sleep"
    /\ batch.channel = "B" /\ sent = <<1>> /\ Key("B", 1) \notin delivered
    /\ now > batch.at
    /\ channel_last_post["B"] = now /\ last_global = now /\ last_processed = "B"


\* the periodic rotation turns in progress: the ones of the live tasks
Turns == IF BatchOpen THEN 1 ELSE 0

HandlerPassesGate ==
    /\ state = "Running" /\ BatchOpen
    /\ inbound' # NoPost /\ inbound'.chat_id = next_channel
    /\ ~CoolingDown(now, channel_last_post[next_channel], interval)
    /\ ~AutoForwardDisabled(auto_forward)

C29_GateStep ==
    HandlerPassesGate => channel_last_post[next_channel] # tick_last_post_time

\* C29: between the cooldown check of a periodic batch for a channel and that
\* batch's update of channel_last_post no inbound handler passes its own cooldown
\* check for the channel against the value the tick has read
C29_GateExclusive == [][C29_GateStep]_vars

\* the tick passed its gate for A and is in its delivery loop; the handler of a post
\* of A passed its gate against the same stamp, made its own calls for the window and
\* stamped A, and the tick has still to make its bookkeeping
C29_Witness ==
    /\ state = "Running" /\ task_pc = "send" /\ next_channel = "A"
    /\ inbound # NoPost /\ inbound.chat_id = "A" /\ Len(inbound.calls) > 0
    /\ Len(forward) = Len(inbound.calls)
    /\ channel_last_post["A"] = now /\ tick_last_post_time < now
    /\ now - tick_last_post_time >= interval
    /\ available[send_i] \in Range(inbound.calls)


\* the channel processed last has a pair interval pointing to x, and that interval
\* has elapsed since the last global post time
PairDue(x) ==
    /\ last_processed \in Channels
    /\ channel_intervals[last_processed].next_channel = x
    /\ now - last_global >= channel_intervals[last_processed].interval

\* the step handles a post of the source channel x while the bot is running
HandlesPostOf(x) ==
    state = "Running" /\ IsSource(x) /\ inbound' # NoPost /\ inbound'.chat_id = x

C30_PostStep ==
    \A x \in Channels :
        HandlesPostOf(x) =>
            IF PairDue(x)
            THEN /\ pending' = pending
                 /\ auto_forward =>
                        /\ inbound'.calls =
                               SortById(Checked(x, BaseIds(inbound'.message_id),
                                                Purge(unavailable, now)))
                        /\ Len(forward') = Len(inbound'.calls)
                        /\ channel_last_post'[x] = now
                 /\ ~auto_forward => forward' = NoCalls /\ channel_last_post' = channel_last_post
            ELSE CoolingDown(now, channel_last_post[x], interval) =>
                     /\ pending'[x] = Enqueue(pending[x], inbound'.message_id)
                     /\ forward' = NoCalls
                     /\ channel_last_post' = channel_last_post

StuckOn(c) ==
    /\ state = "Running" /\ task_pc = "sleep"
    /\ next_channel = c /\ unresolved[c] = tick_now
    /\ last_messages[c] = 0
    /\ sel.cand = c /\ sel.channels = source_channels

C34_AbortStep ==
    GivesUpUnresolved =>
        /\ last_processed' = last_processed
        /\ last_global' = last_global
        /\ UNCHANGED << batch, sent, delivered >>

C34_NextSelection ==
    \A c \in Channels :
        (StuckOn(c) /\ task_pc' = "resolve") => next_channel' = c

C34_SameCandidate == \A c \in Channels : StuckOn(c) => Candidate(now) = c

\* C34: the tick that gives up on a candidate C with no message id leaves
\* last_processed_channel and last_global_post_time as they were and makes no batch;
\* as long as C has no row and the list is the same, the selection yields C again and
\* the next tick that passes its gates is for C
C34_RotationStuck ==
    /\ [][C34_AbortStep /\ C34_NextSelection]_vars
    /\ []C34_SameCandidate

\* the list is C, A and A has a stored id; the tick gave up on C at one interval after
\* the start and again at two, and no periodic batch was ever made
C34_Witness ==
    /\ source_channels = <<"C", "A">> /\ last_messages["A"] > 0
    /\ StuckOn("C") /\ tick_now = started + 2 * interval
    /\ last_processed = None /\ last_global = started
    /\ batch = NoBatch


C35_DeliveryStep ==
    \A x \in Channels :
        (HandlesPostOf(x) /\ inbound'.calls # <<>>) =>
            /\ channel_last_post'[x] = now
            /\ \A d \in Channels \ {x} : channel_last_post'[d] = channel_last_post[d]
            /\ UNCHANGED << last_processed, last_global, pending, interval >>
            /\ Candidate(now)' = Candidate(now)

\* C35: a delivery made by the inbound handler for channel X writes, of the rotation
\* cursor, channel_last_post[X] alone: last_processed_channel, last_global_post_time,
\* the pending lists and the other channels' stamps are as before, and the selection
\* of the periodic task yields the same candidate after it as before it
C35_CursorFrame == [][C35_DeliveryStep]_vars

\* the periodic task processed A; the handler then delivered a post of B and stamped B
\* alone, at a later time than A's batch
C35_Witness ==
    /\ state = "Running" /\ last_processed = "A"
    /\ inbound.chat_id = "B" /\ inbound.calls # <<>> /\ Len(forward) = Len(inbound.calls)
    /\ channel_last_post["B"] = now
    /\ channel_last_post["A"] = last_global /\ last_global < now
    /\ Candidate(now) = "B"


(***************************************************************************)
(* The counters of the periodic batch                                      *)
(***************************************************************************)
Total(c) == c.forwarded + c.skipped + c.errors

C37_CompletionStep ==
    CompletesBatch =>
        /\ Total(counts') = Len(message_ids')
        /\ counts'.skipped >= Len(message_ids') - Len(available')

C37_InLoop ==
    task_pc = "send" =>
        Total(counts) = (Len(message_ids) - Len(available)) + (send_i - 1)

\* C37: when a periodic batch completes, forwarded + skipped + errors is the number
\* of message ids of its window: the ids left out before the delivery loop, those in
\* the cache included, are counted as skipped, and every round of the loop adds one
\* to exactly one counter
C37_CountersAddUp == [][C37_CompletionStep]_vars /\ []C37_InLoop

\* a completed batch of A over the window 1..3: id 1 was in the cache and counted as
\* skipped, the other two were forwarded
C37_Witness ==
    /\ state = "Running" /\ task_pc = "sleep" /\ batch.channel = "A"
    /\ message_ids = <<1, 2, 3>> /\ available = <<2, 3>> /\ sent = <<2, 3>>
    /\ Key("A", 1) \in DOMAIN unavailable
    /\ counts = [forwarded |-> 2, skipped |-> 1, errors |-> 0]


(***************************************************************************)
(* The rotation over a fixed list                                          *)
(***************************************************************************)
\* the channel after the one processed last, in list order with wrap-around; the
\* first channel when none was processed
NextInOrder ==
    IF last_processed = None THEN source_channels[1]
    ELSE source_channels[(IndexOf(source_channels, last_processed) % Len(source_channels)) + 1]

\* at clock reading t the task's sleep is over, the environment has failed f calls, and
\* c is next in order with the interval elapsed since the last batch and since c's stamp
RotationDue(c, t, f) ==
    /\ state = "Running" /\ task_pc = "sleep" /\ now = t /\ now >= wake
    /\ faults = f
    /\ NextInOrder = c
    /\ now - channel_last_post[c] >= interval
    /\ last_processed = None \/ now - last_global >= interval

\* a batch of c begun at t or later has completed
Serviced(c, t) == last_processed = c /\ batch.channel = c /\ batch.at >= t /\ last_global >= batch.at

C33_BatchStep ==
    (task_pc = "sleep" /\ task_pc' = "resolve") =>
        /\ next_channel' = NextInOrder
        /\ now - last_global >= interval
        /\ batch.channel # None => now - batch.at >= interval

\* C33: with the list fixed, no pair interval, no post arriving, a stored id for every
\* channel and the task scheduled fairly, every tick that passes its gates is for the
\* channel next in list order, with wrap-around, and at least the interval after the
\* batch before it; and whenever a channel is next in order with the interval
\* elapsed, its batch is made, unless the environment fails a call of the task first
\* (the task then sleeps a minute and goes on); so each channel is serviced again in
\* every round for as long as the clock goes on
C33_Rotation ==
    /\ [][C33_BatchStep]_vars
    /\ \A c \in {"A", "B"} : \A d \in RotationInstants : \A f \in 0..MaxFaults :
           RotationDue(c, ClockOrigin + d, f)
               ~> (Serviced(c, ClockOrigin + d) \/ faults > f)

\* two rounds: A, B, A, B, one interval apart each
C33_Witness ==
    /\ state = "Running" /\ source_channels = <<"A", "B">>
    /\ batch_prev["A"] = started + 60 /\ batch_prev["B"] = started + 120
    /\ batch_cur["A"] = started + 180 /\ batch_cur["B"] = started + 240
    /\ last_processed = "B" /\ last_global = started + 240


(***************************************************************************)
(* C36: a channel configured by its handle                                 *)
(***************************************************************************)
\* the string under which the list holds the chat x
ConfiguredAs(x) ==
    source_channels[CHOOSE i \in 1..Len(source_channels) :
                        \/ source_channels[i] = x
                        \/ /\ username[x] # None
                           /\ Lower(source_channels[i]) = Lower(username[x])]

\* the step handles a post of the chat x, which the list holds by its handle only
HandlePostOf(x) ==
    /\ inbound'.chat_id = x
    /\ x \notin Range(source_channels)
    /\ IsSource(x)

\* C36: when the handler recognises the chat of a post by its handle, the last-message
\* record, the pending entry and the cooldown stamp it writes are the entries of the
\* configured string, the ones the periodic tick reads for that channel
C36_SameEntries ==
    [][\A x \in Channels :
          HandlePostOf(x) =>
              /\ last_messages'[ConfiguredAs(x)] = inbound'.message_id
              /\ pending' # pending => pending'[ConfiguredAs(x)] # pending[ConfiguredAs(x)]
              /\ channel_last_post' # channel_last_post =>
                     channel_last_post'[ConfiguredAs(x)] = now]_vars

\* the post 1 of the chat C is stored under the chat id, the configured string "News"
\* has no record, and the tick has found no message id for "News"
C36_Witness ==
    /\ "News" \in Range(source_channels)
    /\ last_messages["C"] = 1
    /\ last_messages["News"] = 0
    /\ unresolved["News"] >= 0

(***************************************************************************)
(* C31: one pair record for each channel                                   *)
(***************************************************************************)
\* the table holds at most one row for each channel_id, and the dict read from it
\* holds that row
OneRecord ==
    /\ \A c \in Channels : Cardinality({r \in interval_rows : r.channel_id = c}) <= 1
    /\ channel_intervals = GetChannelIntervals(interval_rows)

\* the step sets the pair interval of some channel
SetsPair == commands' = commands - 1 /\ issued'.op = "pair"

\* after the set the channel's rows are the one row written
C31_SetStep ==
    SetsPair =>
        {r \in interval_rows' : r.channel_id = issued'.channel}
            = {Row(issued'.channel, issued'.next_channel, issued'.seconds)}

\* C31: after any sequence of sets, deletes and reconciliations the table holds at most
\* one pair record for each channel, and a set for a channel that has a record leaves
\* the new record in its place
C31_OneRecord == []OneRecord /\ [][C31_SetStep]_vars

\* the record A -> B of 60 s has just been replaced by A -> B of 300 s
C31_Witness ==
    /\ issued.op = "pair" /\ issued.channel = "A"
    /\ issued.before["A"] = [next_channel |-> "B", interval |-> 60]
    /\ channel_intervals["A"] = [next_channel |-> "B", interval |-> 300]

(***************************************************************************)
(* C32: the pair records after a move or a removal                         *)
(***************************************************************************)
\* the step moves a channel of the list
MovesChannel ==
    /\ commands' = commands - 1 /\ issued'.op \in {"up", "down"}
    /\ source_channels' # source_channels

\* the step removes a channel of the list
RemovesChannel == removable' # removable /\ source_channels' # source_channels

\* the record of c names the channel that follows c in the list chs
Adjacent(chs, c, record) ==
    /\ c \in Range(chs)
    /\ IndexOf(chs, c) < Len(chs)
    /\ record.next_channel = chs[IndexOf(chs, c) + 1]

\* every record is the record of an adjacent pair of the list as it is after the step
C32_EveryRecordAdjacent ==
    \A c \in Channels :
        channel_intervals'[c] # NoPair => Adjacent(source_channels', c, channel_intervals'[c])

\* a channel that is not last after the step and had a record of a positive interval
\* has that interval on its pair
C32_IntervalCarried ==
    \A c \in Range(source_channels') :
        (/\ IndexOf(source_channels', c) < Len(source_channels')
         /\ channel_intervals[c] # NoPair
         /\ channel_intervals[c].interval > 0)
        => /\ Adjacent(source_channels', c, channel_intervals'[c])
           /\ channel_intervals'[c].interval = channel_intervals[c].interval

\* C32: after a move or a removal and the reconciliation that follows it, every pair
\* record is the record of a channel of the list that is not the last and names that
\* channel's immediate successor, a channel that is not last keeps the positive
\* interval it had, and the records of the last channel and of absent channels are gone
C32_Reconciled ==
    [][(MovesChannel \/ RemovesChannel) =>
           (C32_EveryRecordAdjacent /\ C32_IntervalCarried)]_vars

\* the last channel has been removed and the record of a channel removed before it,
\* written from a keyboard drawn while that channel was in the list, is still stored
C32_Witness ==
    /\ source_channels = <<>>
    /\ \E c \in Channels : channel_intervals[c] # NoPair

(***************************************************************************)
(* C40: the list of source channels                                        *)
(***************************************************************************)
\* no channel is in the list twice
NoDuplicates ==
    \A i, j \in 1..Len(source_channels) : i # j => source_channels[i] # source_channels[j]

\* the number of places at which the list chs holds c
Occurrences(chs, c) == Cardinality({i \in 1..Len(chs) : chs[i] = c})

\* a press of an up or down button leaves a permutation of the list
C40_MoveStep ==
    (commands' = commands - 1 /\ issued'.op \in {"up", "down"}) =>
        /\ Len(source_channels') = Len(source_channels)
        /\ \A c \in Channels :
               Occurrences(source_channels', c) = Occurrences(source_channels, c)

\* an add of a channel of the list returns False and leaves the list as it is
C40_AddStep ==
    \A c \in addable :
        (addable' = addable \ {c} /\ c \in Range(source_channels)) =>
            /\ ~AddReturns(source_channels, c)
            /\ source_channels' = source_channels

\* a removal of a channel that is not in the list returns False and leaves the list,
\* and with it the pair records, as they are
C40_RemoveStep ==
    \A c \in removable :
        (removable' = removable \ {c} /\ c \notin Range(source_channels)) =>
            /\ ~RemoveReturns(source_channels, c)
            /\ source_channels' = source_channels
            /\ interval_rows' = interval_rows

\* C40: after any sequence of adds, removals and moves the list holds no channel
\* twice; a move permutes the list, and an add of a channel of the list or a removal
\* of a channel that is not in it returns False and leaves the list unchanged
C40_ListSound ==
    []NoDuplicates /\ [][C40_MoveStep /\ C40_AddStep /\ C40_RemoveStep]_vars

\* B, which was never removed, has been added again, "News", which was never in the
\* list, has been removed, and the last command moved a channel
C40_Witness ==
    /\ addable = {} /\ "B" \in removable
    /\ "News" \notin removable
    /\ issued.op \in {"up", "down"}
    /\ issued.list # source_channels

(***************************************************************************)
(* C38: the flag of the Idle state, start() in Running, stop() in Idle     *)
(***************************************************************************)
\* the Idle state's flag is off
IdleFlagOff == state = "Idle" => ~auto_forward

\* Running is entered with the flag off
C38_EntryStep == (state = "Idle" /\ state' = "Running") => ~auto_forward'

\* the state machine, the cursor, the task and the stored configuration
C38_Frame ==
    UNCHANGED << state, auto_forward, cursor_vars, task_vars, tick_locals, starts,
                 repost_interval, source_channels, last_messages, unavailable >>

\* a start() handled in Running changes nothing
C38_RunningStartStep ==
    (commands' = commands - 1 /\ issued'.op = "start") => (state = "Running" /\ C38_Frame)

\* a stop() handled in Idle changes nothing
C38_IdleStopStep ==
    (commands' = commands - 1 /\ issued'.op = "stop") => (state = "Idle" /\ C38_Frame)

\* C38: in every reachable state the flag of the Idle state is off, so that Running is
\* always entered with auto-forward off; start() in Running and stop() in Idle change
\* neither the state nor the cursor
C38_IdleFlag ==
    []IdleFlagOff /\ [][C38_EntryStep /\ C38_RunningStartStep /\ C38_IdleStopStep]_vars

\* the bot has been started a second time, after a stop, and start() has just been
\* handled in Running
C38_Witness ==
    /\ starts = 2 /\ state = "Running"
    /\ issued.op = "start"
    /\ ~auto_forward

(***************************************************************************)
(* C39: a change of the global interval                                    *)
(***************************************************************************)
\* the step handles a press of a button of the global interval keyboard
ChangesInterval == commands' = commands - 1 /\ issued'.op = "interval"

\* in Running the engine takes the value over and every channel of the list, and the
\* global stamp, are stamped with the time of the change
C39_RunningStep ==
    (ChangesInterval /\ state = "Running") =>
        /\ repost_interval' = issued'.seconds
        /\ interval' = issued'.seconds
        /\ \A c \in Range(source_channels) : channel_last_post'[c] = now
        /\ last_global' = now

\* in Idle the stored value alone changes
C39_IdleStep ==
    (ChangesInterval /\ state = "Idle") =>
        /\ repost_interval' = issued'.seconds
        /\ UNCHANGED << state, auto_forward, cursor_vars, task_vars, tick_locals >>

\* the next start takes the stored value
C39_NextStart == (state = "Idle" /\ state' = "Running") => interval' = repost_interval

\* the step makes a forward call of a periodic batch
PeriodicForward == forward' # NoCalls /\ inbound' = NoPost

\* after a change in this run, the periodic task forwards nothing before the new
\* interval has passed since the change
C39_NoEarlyBatch ==
    (PeriodicForward /\ state = "Running" /\ interval_changed >= 0) =>
        now >= interval_changed + interval

\* C39: a change of the global interval to v in Running sets the engine's interval to
\* v and stamps every channel of the list and the global stamp with the time of the
\* change, so that no periodic batch is delivered earlier than v after the change; in
\* Idle only the stored value changes, and the next start takes it
C39_Change ==
    [][C39_RunningStep /\ C39_IdleStep /\ C39_NextStart /\ C39_NoEarlyBatch]_vars

\* the periodic task has delivered a message less than the new interval after the
\* change
C39_Witness ==
    /\ state = "Running" /\ interval_changed >= 0
    /\ forward # NoCalls /\ inbound = NoPost
    /\ forward[1].result = "True"
    /\ now < interval_changed + interval

====
